---- MODULE Spec2Model ----
(***************************************************************************)
(* Identity-binding commitment subsystem of x402-zkid: field encoding,     *)
(* the Poseidon commitment chain, dual-mode proof generation and proof     *)
(* verification, as implemented by                                         *)
(*   - the dual-mode frontend library         (generateZKProof, isReal),   *)
(*   - packages/zk-helpers                    (generateProofBrowser),      *)
(*   - frontend/lib/zkproof.ts                (snarkjs only),              *)
(*   - the mock-only frontend library         (verificationKeyPath).       *)
(*                                                                         *)
(* Value representation.  A field element / bigint is a sequence of        *)
(* integers: <<0>> \o d is the integer with little-endian base-256 digits  *)
(* d (no high zero digit), <<1, n, ...>> is the output of the n-ary        *)
(* Poseidon hash on the serialised arguments (the primitive is taken to be *)
(* collision free).  A wire string is <<2>> \o v for "0x" + v.toString(16),*)
(* <<4>> \o v for "0x" + 64 zero-padded hex digits of v, <<5>> \o v for    *)
(* the decimal text of v, and <<3>> for a text BigInt() rejects.           *)
(***************************************************************************)
EXTENDS Integers, Sequences, FiniteSets, TLC

\* ------------------------------------------------------------------ bounds
MaxDomainLen == 3
MaxReqDomainLen == 1
MaxSecret == 2
MaxRand == 2
MaxTime == 1
MaxExpiry == 1

Bytes == {97, 98}

RECURSIVE SeqsUpTo(_, _)
SeqsUpTo(S, n) ==
  IF n = 0 THEN {<<>>}
  ELSE LET shorter == SeqsUpTo(S, n - 1)
       IN shorter \cup {Append(s, b) : s \in {t \in shorter : Len(t) = n - 1}, b \in S}

Domains == SeqsUpTo(Bytes, MaxDomainLen)
ReqDomains == SeqsUpTo(Bytes, MaxReqDomainLen)
Secrets == 1..MaxSecret
Rand == 1..MaxRand
Times == 1..MaxTime
Expiries == 1..MaxExpiry

\* wallet address texts, one character per element
WalletAddresses ==
  { <<"0", "x", "1">>, <<"0", "x", "A">>, <<"a", "1">>, <<"1", "1">>,
    <<"0", "x", "g">> }

\* ------------------------------------------------------- bigint and strings
RECURSIVE Digits256(_)
Digits256(n) == IF n = 0 THEN <<>> ELSE <<n % 256>> \o Digits256(n \div 256)

Lit(n) == <<0>> \o Digits256(n)

RECURSIVE StripZeros(_)
StripZeros(d) ==
  IF d = <<>> THEN <<>>
  ELSE IF d[Len(d)] = 0 THEN StripZeros(SubSeq(d, 1, Len(d) - 1))
  ELSE d

Min(a, b) == IF a < b THEN a ELSE b

RECURSIVE Serialise(_)
Serialise(args) ==
  IF args = <<>> THEN <<>>
  ELSE <<Len(Head(args))>> \o Head(args) \o Serialise(Tail(args))

\* poseidon-lite poseidonN(inputs) / circomlib Poseidon(n)
Poseidon(args) == <<1, Len(args)>> \o Serialise(args)

Hex(v) == <<2>> \o v
HexPad(v) == <<4>> \o v
Dec(v) == <<5>> \o v
MalformedText == <<3>>

\* BigInt(text) for the wire strings: throws on a malformed text
BigIntOk(s) == s # <<>> /\ s[1] \in {2, 4, 5}
BigIntOf(s) == Tail(s)

\* ---------------------------------------------------------- address parsing
HexChars == {"0", "1", "a"}
DecChars == {"0", "1"}
CharVal(c) == CASE c = "0" -> 0 [] c = "1" -> 1 [] c = "a" -> 10 [] OTHER -> 0

toLowerCase(s) ==
  [i \in 1..Len(s) |->
     CASE s[i] = "A" -> "a" [] s[i] = "X" -> "x" [] s[i] = "E" -> "e"
       [] s[i] = "D" -> "d" [] s[i] = "U" -> "u" [] s[i] = "O" -> "o"
       [] s[i] = "R" -> "r" [] s[i] = "G" -> "g" [] OTHER -> s[i]]

RECURSIVE RadixValue(_, _)
RadixValue(s, radix) ==
  IF s = <<>> THEN 0
  ELSE RadixValue(SubSeq(s, 1, Len(s) - 1), radix) * radix + CharVal(s[Len(s)])

Has0xPrefix(s) == Len(s) >= 2 /\ s[1] = "0" /\ s[2] = "x"

\* BigInt(text) on an address text (StringToBigInt): "" is 0n, "0x.." is
\* hexadecimal, anything else is decimal, otherwise a SyntaxError.
ParseBigInt(s) ==
  IF s = <<>> THEN [ok |-> TRUE, v |-> Lit(0)]
  ELSE IF Has0xPrefix(s)
    THEN LET h == SubSeq(s, 3, Len(s))
         IN IF h # <<>> /\ \A i \in 1..Len(h) : h[i] \in HexChars
            THEN [ok |-> TRUE, v |-> Lit(RadixValue(h, 16))]
            ELSE [ok |-> FALSE, v |-> <<>>]
  ELSE IF \A i \in 1..Len(s) : s[i] \in DecChars
    THEN [ok |-> TRUE, v |-> Lit(RadixValue(s, 10))]
    ELSE [ok |-> FALSE, v |-> <<>>]

\* String.prototype.replace('0x', ''): removes the first occurrence
Replace0x(s) ==
  LET hits == {i \in 1..(Len(s) - 1) : s[i] = "0" /\ s[i + 1] = "x"}
  IN IF hits = {} THEN s
     ELSE LET i == CHOOSE j \in hits : \A k \in hits : j <= k
          IN SubSeq(s, 1, i - 1) \o SubSeq(s, i + 2, Len(s))

\* dual-mode library: BigInt(address.toLowerCase())
addressToField_dual(address) == ParseBigInt(toLowerCase(address))

\* zk-helpers and frontend/lib/zkproof.ts: BigInt('0x' + lower.replace('0x',''))
addressToField(address) == ParseBigInt(<<"0", "x">> \o Replace0x(toLowerCase(address)))

\* ------------------------------------------------------------ random source
Reverse(s) == [i \in 1..Len(s) |-> s[Len(s) + 1 - i]]

\* sample outputs of crypto.getRandomValues on a 32-byte array, one per draw:
\* an odd draw is 31 zero bytes and a last byte, an even draw 31 bytes 0xff
\* and a last byte
randomBytes(draw) ==
  [i \in 1..32 |-> IF i = 32 THEN draw % 256 ELSE IF draw % 2 = 0 THEN 255 ELSE 0]

\* BigInt('0x' + the 32 bytes in hexadecimal, first byte first), per draw
secretOfDraw == [draw \in Secrets |-> <<0>> \o StripZeros(Reverse(randomBytes(draw)))]

\* generateSecret
generateSecret(draw) == secretOfDraw[draw]

\* ---------------------------------------------------------- domain encoding
PACKED_BYTES == 31
PACKED_CAPACITY == 124
MAX_DOMAIN_LEN == 64
CHUNK == 16

\* packed scheme: 4 elements, byte i added at bit 8*(i % 31) of element i / 31
stringToFieldElements_packed(bytes) ==
  LET n == Min(Len(bytes), PACKED_CAPACITY)
  IN [k \in 1..4 |->
        <<0>> \o StripZeros(SubSeq(bytes, PACKED_BYTES * (k - 1) + 1,
                                   Min(n, PACKED_BYTES * k)))]

\* per-byte scheme: maxLen elements, byte or 0
stringToFieldElements(bytes, maxLen) ==
  [i \in 1..maxLen |-> IF i <= Len(bytes) THEN Lit(bytes[i]) ELSE Lit(0)]

\* ---------------------------------------------------------- commitment chain
\* zk-helpers computeDomainHash: poseidon2 of the first two elements of each
\* group of 16, then poseidon2 of the first two intermediates
computeDomainHash(domain) ==
  LET domainBytes == stringToFieldElements(domain, MAX_DOMAIN_LEN)
      starts == {i \in 0..(MAX_DOMAIN_LEN - 1) : i % CHUNK = 0}
      chunkAt(i) == [j \in 1..CHUNK |->
                       IF i + j <= Len(domainBytes) THEN domainBytes[i + j] ELSE Lit(0)]
      chunks == [c \in 1..Cardinality(starts) |->
                   LET chunk == chunkAt(CHUNK * (c - 1))
                   IN Poseidon(<<chunk[1], chunk[2]>>)]
  IN IF Len(chunks) >= 2 THEN Poseidon(<<chunks[1], chunks[2]>>)
     ELSE IF Len(chunks) = 1 THEN chunks[1] ELSE Lit(0)

computeNullifier(domainHash, secret) == Poseidon(<<domainHash, secret>>)

computeWalletBinding(domainHash, walletAddress) ==
  LET walletField == addressToField(walletAddress)
  IN [ok |-> walletField.ok,
      v |-> IF walletField.ok THEN Poseidon(<<domainHash, walletField.v>>) ELSE <<>>]

NoTriple == [domainHash |-> <<>>, nullifier |-> <<>>, walletBinding |-> <<>>]

\* the per-byte triple as generateMockProof of zk-helpers computes it
computeTriple_helpers(domain, walletAddress, secret) ==
  LET domainHash == computeDomainHash(domain)
      binding == computeWalletBinding(domainHash, walletAddress)
  IN [ok |-> binding.ok,
      t |-> IF binding.ok
            THEN [domainHash |-> domainHash,
                  nullifier |-> computeNullifier(domainHash, secret),
                  walletBinding |-> binding.v]
            ELSE NoTriple]

\* computeHashes with the secret mixed into the wallet binding
computeHashes_secretInBinding(domain, walletAddress, secret) ==
  LET domainFields == stringToFieldElements_packed(domain)
      domainHash == Poseidon(domainFields)
      walletField == addressToField_dual(walletAddress)
  IN [ok |-> walletField.ok,
      t |-> IF walletField.ok
            THEN [domainHash |-> domainHash,
                  nullifier |-> Poseidon(<<domainHash, secret>>),
                  walletBinding |-> Poseidon(<<domainHash, walletField.v, secret>>)]
            ELSE NoTriple]

\* the dual-mode library's computeHashes: poseidon4 of the packed elements
computeHashes(domain, walletAddress, secret) ==
  LET domainFields == stringToFieldElements_packed(domain)
      domainHash == Poseidon(domainFields)
      walletField == addressToField_dual(walletAddress)
  IN [ok |-> walletField.ok,
      t |-> IF walletField.ok
            THEN [domainHash |-> domainHash,
                  nullifier |-> Poseidon(<<domainHash, secret>>),
                  walletBinding |-> Poseidon(<<domainHash, walletField.v>>)]
            ELSE NoTriple]

\* ------------------------------------------------------------------ circuits
\* JWTDomainVerifier with the inputs of the nullifier hasher wired in the
\* other order
JWTDomainVerifier_swappedInputs(w) ==
  LET domainHash == Poseidon(<<w.domain[1], w.domain[2], w.domain[3], w.domain[4]>>)
  IN <<domainHash,
       Poseidon(<<w.secret, domainHash>>),
       Poseidon(<<domainHash, w.walletAddress>>)>>

\* circuits/jwt_domain_verifier.circom: outputs (domainHash, nullifier, walletBinding)
JWTDomainVerifier(w) ==
  LET domainHash == Poseidon(<<w.domain[1], w.domain[2], w.domain[3], w.domain[4]>>)
  IN <<domainHash,
       Poseidon(<<domainHash, w.secret>>),
       Poseidon(<<domainHash, w.walletAddress>>)>>

\* zk-helpers circuit: Poseidon of every group of 16, then of all intermediates
PoseidonLarge(in) ==
  LET n == Len(in)
      numChunks == (n + 15) \div 16
      intermediate == [i \in 1..numChunks |->
                         Poseidon(SubSeq(in, 16 * (i - 1) + 1, Min(n, 16 * i)))]
  IN Poseidon(intermediate)

JWTDomainVerifierLarge(w) ==
  LET domainHash == PoseidonLarge(w.domain)
  IN <<domainHash,
       Poseidon(<<domainHash, w.secret>>),
       Poseidon(<<domainHash, w.walletAddress>>)>>

\* the domainBinding circuit: outputs (domainHash, walletBinding, expiryPublic)
DomainBinding(w) ==
  LET domainHash == Poseidon(<<w.domain[1], w.domain[2], w.domain[3], w.domain[4]>>)
  IN <<domainHash, Poseidon(<<domainHash, w.walletAddress>>), Lit(w.jwtExpiry)>>

\* ------------------------------------------------------------- proof records
NoProof == [pi_a |-> <<>>, pi_b |-> <<>>, pi_c |-> <<>>, protocol |-> "", curve |-> ""]

\* absent: the properties of the object that are undefined
NoRec == [proof |-> NoProof, publicSignals |-> <<>>, domain |-> <<>>, method |-> "",
          generatedAt |-> 0, walletAddress |-> <<>>, isReal |-> "undefined",
          absent |-> {}]

\* the mock-only library: per-byte domain hash, BigInt(address) wallet field
computeTriple_mockOnly(domain, walletAddress, secret) ==
  LET domainHash == computeDomainHash(domain)
      walletField == addressToField_dual(walletAddress)
  IN [ok |-> walletField.ok,
      t |-> IF walletField.ok
            THEN [domainHash |-> domainHash,
                  nullifier |-> Poseidon(<<domainHash, secret>>),
                  walletBinding |-> Poseidon(<<domainHash, walletField.v>>)]
            ELSE NoTriple]

NoWitness == [domain |-> <<>>, walletAddress |-> <<>>, secret |-> <<>>, jwtExpiry |-> 0]

\* what snarkjs.groth16.fullProve resolves with: decimal strings
SnarkProof(r) ==
  [pi_a |-> <<Dec(Lit(r)), Dec(Lit(r + 1)), Dec(Lit(1))>>,
   pi_b |-> << <<Dec(Lit(r)), Dec(Lit(r + 1))>>, <<Dec(Lit(r + 2)), Dec(Lit(r))>>,
               <<Dec(Lit(1)), Dec(Lit(0))>> >>,
   pi_c |-> <<Dec(Lit(r + 2)), Dec(Lit(r))>> \o <<Dec(Lit(1))>>,
   protocol |-> "groth16", curve |-> "bn128"]

\* x => '0x' + BigInt(x).toString(16)
toHex(x) == Hex(BigIntOf(x))

formatProof(proof) ==
  [pi_a |-> [i \in 1..Len(proof.pi_a) |-> toHex(proof.pi_a[i])],
   pi_b |-> [i \in 1..Len(proof.pi_b) |->
               [j \in 1..Len(proof.pi_b[i]) |-> toHex(proof.pi_b[i][j])]],
   pi_c |-> [i \in 1..Len(proof.pi_c) |-> toHex(proof.pi_c[i])],
   protocol |-> proof.protocol, curve |-> proof.curve]

\* placeholder proof material that does not use the random draws
mockProofMaterial_constant(fill) ==
  [pi_a |-> <<HexPad(Lit(1)), HexPad(Lit(1)), Hex(Lit(1))>>,
   pi_b |-> << <<HexPad(Lit(1)), HexPad(Lit(1))>>,
               <<HexPad(Lit(1)), HexPad(Lit(1))>>,
               <<Hex(Lit(1)), Hex(Lit(1))>> >>,
   pi_c |-> <<HexPad(Lit(1)), HexPad(Lit(1)), Hex(Lit(1))>>,
   protocol |-> "groth16", curve |-> "bn128"]

\* the placeholder proof material: eight randomHex() draws
mockProofMaterial(fill) ==
  [pi_a |-> <<HexPad(Lit(fill[1])), HexPad(Lit(fill[2])), Hex(Lit(1))>>,
   pi_b |-> << <<HexPad(Lit(fill[3])), HexPad(Lit(fill[4]))>>,
               <<HexPad(Lit(fill[5])), HexPad(Lit(fill[6]))>>,
               <<Hex(Lit(1)), Hex(Lit(1))>> >>,
   pi_c |-> <<HexPad(Lit(fill[7])), HexPad(Lit(fill[8])), Hex(Lit(1))>>,
   protocol |-> "groth16", curve |-> "bn128"]

\* sample outputs of the random source for the eight draws: all draws equal
\* (k = 0) or rotating through Rand (k = 1)
Fills == {[i \in 1..8 |-> ((r + i * k) % MaxRand) + 1] : r \in Rand, k \in 0..1}

tripleSignals(t) == <<Hex(t.domainHash), Hex(t.nullifier), Hex(t.walletBinding)>>

\* ------------------------------------------------------------ return values
RetNone == [kind |-> "none", rec |-> NoRec, err |-> "none", val |-> FALSE]
RetRecord(r) == [kind |-> "record", rec |-> r, err |-> "none", val |-> FALSE]
RetThrow(e) == [kind |-> "throw", rec |-> NoRec, err |-> e, val |-> FALSE]
RetBool(b) == [kind |-> "bool", rec |-> NoRec, err |-> "none", val |-> b]

\* ---------------------------------------------------- the two mock generators
\* dual-mode library generateMockProof: generateSecret, computeHashes, randomHex
generateMockProof_dual(domain, walletAddress, entropy, secret, fill, now) ==
  IF ~entropy THEN RetThrow("entropy")
  ELSE LET h == computeHashes(domain, walletAddress, generateSecret(secret))
       IN IF ~h.ok THEN RetThrow("encoder")
          ELSE RetRecord([proof |-> mockProofMaterial(fill),
                          publicSignals |-> tripleSignals(h.t),
                          domain |-> domain, method |-> "jwt", generatedAt |-> now,
                          walletAddress |-> walletAddress, isReal |-> "false",
                          absent |-> {}])

\* zk-helpers generateMockProof: computeDomainHash, generateSecret,
\* computeNullifier, computeWalletBinding, randomHex; the record has no isReal
generateMockProof(domain, walletAddress, entropy, secret, fill, now) ==
  IF ~entropy THEN RetThrow("entropy")
  ELSE LET h == computeTriple_helpers(domain, walletAddress, generateSecret(secret))
       IN IF ~h.ok THEN RetThrow("encoder")
          ELSE RetRecord([proof |-> mockProofMaterial(fill),
                          publicSignals |-> tripleSignals(h.t),
                          domain |-> domain, method |-> "jwt", generatedAt |-> now,
                          walletAddress |-> walletAddress, isReal |-> "undefined",
                          absent |-> {}])

\* mock-only library generateZKProof: the record has no isReal
generateZKProof_mockOnly(domain, walletAddress, entropy, secret, fill, now) ==
  IF ~entropy THEN RetThrow("entropy")
  ELSE LET h == computeTriple_mockOnly(domain, walletAddress, generateSecret(secret))
       IN IF ~h.ok THEN RetThrow("encoder")
          ELSE RetRecord([proof |-> mockProofMaterial(fill),
                          publicSignals |-> tripleSignals(h.t),
                          domain |-> domain, method |-> "jwt", generatedAt |-> now,
                          walletAddress |-> walletAddress, isReal |-> "undefined",
                          absent |-> {}])

\* realRecord listing the prover's signals last to first
realRecord_reversedSignals(entry, call, proof, signals, now) ==
  [proof |-> formatProof(proof),
   publicSignals |-> [i \in 1..Len(signals) |-> toHex(signals[Len(signals) + 1 - i])],
   domain |-> call.domain, method |-> "jwt", generatedAt |-> now,
   walletAddress |-> call.walletAddress,
   isReal |-> IF entry = "dual" THEN "true" ELSE "undefined",
   absent |-> {}]

\* the record packaged from the prover's output
realRecord(entry, call, proof, signals, now) ==
  [proof |-> formatProof(proof),
   publicSignals |-> [i \in 1..Len(signals) |-> toHex(signals[i])],
   domain |-> call.domain, method |-> "jwt", generatedAt |-> now,
   walletAddress |-> call.walletAddress,
   isReal |-> IF entry = "dual" THEN "true" ELSE "undefined",
   absent |-> {}]

\* -------------------------------------------------------------------- state
VARIABLES
  pc,       \* where the running call is suspended: idle, an await, hung or done
  call,     \* the arguments of the running call
  witness,  \* the input object handed to snarkjs.groth16.fullProve
  ev,       \* what the call did: fetches issued, prover and verifier calls
  ret,      \* what the call returned or threw
  hash,     \* two evaluations of the commitment chain (HashSpec only)
  last      \* the request before the running one (TwoCallSpec only)

\* the services around the proof library: each is idle in the specifications
\* of the proof library and runs in a specification of its own
VARIABLES
  x402,     \* the x402 route: cached pay-to address and the requests in flight
  pricing,  \* the negotiation agent: pricingState and the last tool result
  tier,     \* repeated get_next_tier_price (TierSpec only)
  quote,    \* one tier extraction and quote (QuoteSpec only)
  db,       \* the MongoDB connection cache and the getDb calls in flight
  store,    \* the zkid_proofs collection and the POST /proofs requests
  jwt       \* one evaluation of extractEmailDomain (JwtSpec only)

\* the state of the proof library
coreVars == <<pc, call, witness, ev, ret, hash, last>>

\* the state of the services
appVars == <<x402, pricing, tier, quote, db, store, jwt>>

\* what each service leaves alone
exceptX402 == <<coreVars, pricing, tier, quote, db, store, jwt>>
exceptPricing == <<coreVars, x402, tier, quote, db, store, jwt>>
exceptTier == <<coreVars, x402, pricing, quote, db, store, jwt>>
exceptQuote == <<coreVars, x402, pricing, tier, db, store, jwt>>
exceptDb == <<coreVars, x402, pricing, tier, quote, store, jwt>>
exceptStore == <<coreVars, x402, pricing, tier, quote, db, jwt>>
exceptJwt == <<coreVars, x402, pricing, tier, quote, db, store>>

vars == <<pc, call, witness, ev, ret, hash, last, x402, pricing, tier, quote,
         db, store, jwt>>

MaxRequests == 2
Requests == 1..MaxRequests

\* let payToAddress: string | null = null
NoAddress == 0

\* a request that has not arrived
NoReq == [pc |-> "idle", route |-> "none", payTo |-> NoAddress,
          verified |-> FALSE, settled |-> "none", status |-> 0,
          success |-> FALSE, content |-> FALSE]

\* the route module after load: nothing cached, no account created
NoX402 == [variant |-> "dynamic", payToAddress |-> NoAddress, httpServer |-> NoAddress,
           createAccountCalls |-> 0, reqs |-> [r \in Requests |-> NoReq]]

\* the wallets that talk to the agent
Wallets == {"w1", "w2"}

\* pricingState.get(walletAddress) of a wallet without session
NoSession == [cents |-> 0, round |-> 0, domain |-> <<>>]

NoPriceRet == [op |-> "none", success |-> FALSE, cents |-> 0, round |-> 0]

\* export const pricingState = new Map()
NoPricing == [pricingState |-> [w \in Wallets |-> NoSession], ret |-> NoPriceRet]

NoTier == [domain |-> <<>>, from |-> 0, prev |-> 0, cents |-> 0, steps |-> 0]

\* a property that is missing or holds something that is not a string
NotAString == [isString |-> FALSE, v |-> <<>>]

\* the fields extractDomainFromZkIdProof looks at, in its order
ProofFields == <<"domain", "emailDomain", "claims.domain", "claims.emailDomain",
                 "publicSignals[0]", "public_signals[0]">>

\* a proof object none of whose fields is set (also null and undefined)
EmptyProof == [i \in 1..Len(ProofFields) |-> NotAString]

NoQuote == [proof |-> EmptyProof, resource_id |-> "none", done |-> FALSE,
            domain |-> NotAString, tier |-> "none", result |-> "none",
            final_price_usdc |-> "none"]

MaxCalls == 3
Calls == 1..MaxCalls

NoDbCall == [pc |-> "idle", uri |-> TRUE, result |-> "none", client |-> 0]

\* db.ts after load: client = null, connectPromise = null
NoDb == [client |-> 0, connectPromise |-> "null", newClient |-> 0,
         constructed |-> 0, connects |-> 0, calls |-> [c \in Calls |-> NoDbCall]]

\* a property the JWT payload does not have
Missing == [kind |-> "missing", v |-> <<>>]

\* a field the request body does not have
Absent == [kind |-> "missing", v |-> ""]

NoBody == [walletAddress |-> Absent, domain |-> Absent, method |-> Absent,
           generatedAt |-> Absent, proof |-> Absent, publicSignals |-> Absent]

NoPost == [pc |-> "idle", body |-> NoBody, proofHash |-> <<"sha256">>, matched |-> FALSE,
           status |-> 0, error |-> "none"]

\* an empty zkid_proofs collection and no request in flight
NoStore == [docs |-> {}, clock |-> 0, posts |-> [r \in Requests |-> NoPost]]

NoPayload == [parses |-> FALSE, email |-> Missing, preferred_username |-> Missing,
              sub |-> Missing]

NoJwt == [payload |-> NoPayload, done |-> FALSE, result |-> Missing,
          caught |-> FALSE, threw |-> FALSE]

\* every service as it is after start-up
AppIdle ==
  /\ x402 = NoX402
  /\ pricing = NoPricing
  /\ tier = NoTier
  /\ quote = NoQuote
  /\ db = NoDb
  /\ store = NoStore
  /\ jwt = NoJwt

NoCall == [op |-> "none", entry |-> "none", domain |-> <<>>, walletAddress |-> <<>>,
           jwtExpiry |-> 0, forceMock |-> FALSE, hasPaths |-> FALSE,
           entropy |-> TRUE, rec |-> NoRec, keyPath |-> FALSE]

NoArgs == [signals |-> <<>>, proof |-> NoProof]

NoEv == [probed |-> FALSE, wasmOk |-> "unknown", zkeyOk |-> "unknown",
         proverInvoked |-> FALSE, realThrew |-> FALSE, fromProver |-> FALSE,
         mockRan |-> FALSE,
         keyFetched |-> FALSE, extCalled |-> FALSE, extReturned |-> "none",
         vkey |-> "none", extArgs |-> NoArgs, console |-> {},
         proverSignals |-> <<>>, mockSecret |-> <<>>, mockFill |-> <<>>]

\* console.log('... with inputs:', input): the properties of the input object
\* that are written to the console, by name
inputLogged(w, names) ==
  {[name |-> "domain", v |-> w.domain[i]] : i \in 1..Len(w.domain)}
    \cup (IF "walletAddress" \in names
          THEN {[name |-> "walletAddress", v |-> w.walletAddress]} ELSE {})
    \cup (IF "secret" \in names THEN {[name |-> "secret", v |-> w.secret]} ELSE {})
    \cup (IF "jwtExpiry" \in names
          THEN {[name |-> "jwtExpiry", v |-> Lit(w.jwtExpiry)]} ELSE {})

NoField == [ok |-> FALSE, v |-> <<>>]
NoOut == [done |-> FALSE, ok |-> FALSE, t |-> NoTriple, enc |-> NoField,
          wallet |-> NoField]
NoIn == [domain |-> <<>>, walletAddress |-> <<>>, secret |-> 0]
NoHash == [scheme |-> "none", x |-> NoIn, y |-> NoIn, outx |-> NoOut, outy |-> NoOut]

NoLast == [call |-> NoCall, ret |-> RetNone, ev |-> NoEv]

Init ==
  /\ AppIdle
  /\ hash = NoHash
  /\ last = NoLast
  /\ pc = "idle"
  /\ call = NoCall
  /\ witness = NoWitness
  /\ ev = NoEv
  /\ ret = RetNone

\* ------------------------------------------------------------ proof requests
\* the mock generator of the library the call entered
mockOf(c, secret, fill, now) ==
  CASE c.entry = "dual" ->
         generateMockProof_dual(c.domain, c.walletAddress, c.entropy, secret, fill, now)
    [] c.entry = "browser" ->
         generateMockProof(c.domain, c.walletAddress, c.entropy, secret, fill, now)
    [] OTHER ->
         generateZKProof_mockOnly(c.domain, c.walletAddress, c.entropy, secret, fill, now)

\* run the mock generator and return from the call
ReturnMock(c, e, secret, fill, now) ==
  LET out == mockOf(c, secret, fill, now)
  IN /\ pc' = "done"
     /\ ev' = [e EXCEPT !.mockRan = TRUE,
                         !.mockSecret = IF c.entropy THEN generateSecret(secret) ELSE <<>>,
                         !.mockFill = IF out.kind = "record" THEN fill ELSE <<>>]
     /\ ret' = out

\* generateRealProof up to the await of fullProve (dual-mode library):
\* generateSecret, computeHashes, the input object, the prover call
generateRealProof(c, e, secret, fill, now) ==
  LET h == computeHashes(c.domain, c.walletAddress, generateSecret(secret))
      wallet == addressToField_dual(c.walletAddress)
      input == [domain |-> stringToFieldElements_packed(c.domain),
                walletAddress |-> wallet.v, secret |-> generateSecret(secret),
                jwtExpiry |-> 0]
  IN IF c.entropy /\ h.ok
     THEN /\ pc' = "proving"
          /\ witness' = input
          /\ ev' = [e EXCEPT !.proverInvoked = TRUE,
                              !.console = inputLogged(input,
                                            {"domain", "walletAddress", "secret"})]
          /\ ret' = ret
     ELSE \* the catch of generateZKProof: fall back to the mock generator
          /\ witness' = witness
          /\ ReturnMock(c, [e EXCEPT !.realThrew = TRUE], secret, fill, now)

\* generateZKProof probing even when forceMock is set
generateZKProof_ignoresForce(domain, walletAddress, forceMock, entropy, secret, fill, now) ==
  /\ pc = "idle"
  /\ UNCHANGED <<hash, last, appVars>>
  /\ call' = [NoCall EXCEPT !.op = "generate", !.entry = "dual", !.domain = domain,
                            !.walletAddress = walletAddress, !.forceMock = forceMock,
                            !.entropy = entropy]
  /\ witness' = witness
  /\ pc' = "probeWasm"
  /\ ev' = [NoEv EXCEPT !.probed = TRUE]
  /\ ret' = RetNone

\* generateZKProof of the dual-mode library
generateZKProof(domain, walletAddress, forceMock, entropy, secret, fill, now) ==
  /\ pc = "idle"
  /\ UNCHANGED <<hash, last, appVars>>
  /\ LET c == [NoCall EXCEPT !.op = "generate", !.entry = "dual", !.domain = domain,
                             !.walletAddress = walletAddress, !.forceMock = forceMock,
                             !.entropy = entropy]
     IN /\ call' = c
        /\ witness' = witness
        /\ IF ~forceMock
           THEN /\ pc' = "probeWasm"
                /\ ev' = [NoEv EXCEPT !.probed = TRUE]
                /\ ret' = RetNone
           ELSE ReturnMock(c, NoEv, secret, fill, now)

\* checkCircuitFilesExist: the HEAD request for the .wasm settles
ProbeWasmSettle(outcome, secret, fill, now) ==
  /\ pc = "probeWasm"
  /\ UNCHANGED <<hash, last, appVars>>
  /\ call' = call
  /\ witness' = witness
  /\ IF outcome = "throw"
     THEN ReturnMock(call, [ev EXCEPT !.wasmOk = outcome], secret, fill, now)
     ELSE /\ pc' = "probeZkey"
          /\ ev' = [ev EXCEPT !.wasmOk = outcome]
          /\ ret' = ret

\* ProbeZkeySettle with exists = wasmResponse.ok || zkeyResponse.ok
ProbeZkeySettle_either(outcome, secret, fill, now) ==
  /\ pc = "probeZkey"
  /\ UNCHANGED <<hash, last, appVars>>
  /\ call' = call
  /\ LET e == [ev EXCEPT !.zkeyOk = outcome]
         exists == outcome # "throw" /\ (ev.wasmOk = "ok" \/ outcome = "ok")
     IN IF exists
        THEN generateRealProof(call, e, secret, fill, now)
        ELSE /\ witness' = witness
             /\ ReturnMock(call, e, secret, fill, now)

\* checkCircuitFilesExist: the HEAD request for the .zkey settles, and
\* generateZKProof continues with hasCircuitFiles
ProbeZkeySettle(outcome, secret, fill, now) ==
  /\ pc = "probeZkey"
  /\ UNCHANGED <<hash, last, appVars>>
  /\ call' = call
  /\ LET e == [ev EXCEPT !.zkeyOk = outcome]
         exists == outcome # "throw" /\ ev.wasmOk = "ok" /\ outcome = "ok"
     IN IF exists
        THEN generateRealProof(call, e, secret, fill, now)
        ELSE /\ witness' = witness
             /\ ReturnMock(call, e, secret, fill, now)

\* generateProofBrowser of zk-helpers (useMock defaults to true)
generateProofBrowser(domain, walletAddress, useMock, hasPaths, entropy, secret, fill, now) ==
  /\ pc = "idle"
  /\ UNCHANGED <<hash, last, appVars>>
  /\ LET c == [NoCall EXCEPT !.op = "generate", !.entry = "browser", !.domain = domain,
                             !.walletAddress = walletAddress, !.forceMock = useMock,
                             !.hasPaths = hasPaths, !.entropy = entropy]
         wallet == addressToField(walletAddress)
     IN /\ call' = c
        /\ IF ~useMock /\ hasPaths /\ entropy /\ wallet.ok
           THEN /\ pc' = "proving"
                /\ witness' = [domain |-> stringToFieldElements(domain, MAX_DOMAIN_LEN),
                                walletAddress |-> wallet.v, secret |-> generateSecret(secret),
                                jwtExpiry |-> 0]
                /\ ev' = [NoEv EXCEPT !.proverInvoked = TRUE]
                /\ ret' = RetNone
           ELSE \* the real branch was skipped, or threw before the prover call
                /\ witness' = witness
                /\ ReturnMock(c, [NoEv EXCEPT !.realThrew = ~useMock /\ hasPaths],
                              secret, fill, now)

\* generateZKProof of frontend/lib/zkproof.ts: no mock path
generateZKProof_snarkjs(domain, walletAddress, jwtExpiry) ==
  /\ pc = "idle"
  /\ UNCHANGED <<hash, last, appVars>>
  /\ LET c == [NoCall EXCEPT !.op = "generate", !.entry = "snarkjs", !.domain = domain,
                             !.walletAddress = walletAddress, !.jwtExpiry = jwtExpiry]
         walletField == addressToField(walletAddress)
         input == [domain |-> stringToFieldElements_packed(domain),
                   walletAddress |-> walletField.v, secret |-> Lit(0),
                   jwtExpiry |-> jwtExpiry]
     IN /\ call' = c
        /\ IF walletField.ok
           THEN /\ pc' = "proving"
                /\ witness' = input
                /\ ev' = [NoEv EXCEPT !.proverInvoked = TRUE,
                                      !.console = inputLogged(input,
                                          {"domain", "walletAddress", "jwtExpiry"})]
                /\ ret' = RetNone
           ELSE /\ pc' = "done"
                /\ witness' = witness
                /\ ev' = NoEv
                /\ ret' = RetThrow("encoder")

\* generateZKProof of the mock-only library
GenerateMockOnly(domain, walletAddress, entropy, secret, fill, now) ==
  /\ pc = "idle"
  /\ UNCHANGED <<hash, last, appVars>>
  /\ LET c == [NoCall EXCEPT !.op = "generate", !.entry = "mockOnly", !.domain = domain,
                             !.walletAddress = walletAddress, !.entropy = entropy]
     IN /\ call' = c
        /\ witness' = witness
        /\ ReturnMock(c, NoEv, secret, fill, now)

\* the circuit the entry point's artifacts were compiled from
circuitOutputs(entry, w) ==
  CASE entry = "dual" -> JWTDomainVerifier(w)
    [] entry = "browser" -> JWTDomainVerifierLarge(w)
    [] OTHER -> DomainBinding(w)

\* snarkjs.groth16.fullProve resolves: package the prover's output
ProverResolve(r, now) ==
  /\ pc = "proving"
  /\ LET out == circuitOutputs(call.entry, witness)
         signals == [i \in 1..Len(out) |-> Dec(out[i])]
     IN /\ pc' = "done"
        /\ ev' = [ev EXCEPT !.fromProver = TRUE, !.proverSignals = signals]
        /\ ret' = RetRecord(realRecord(call.entry, call, SnarkProof(r), signals, now))
  /\ UNCHANGED <<call, witness, hash, last, appVars>>

\* snarkjs.groth16.fullProve rejects: the catch block of the entry point
ProverReject(secret, fill, now) ==
  /\ pc = "proving"
  /\ IF call.entry = "snarkjs"
     THEN /\ pc' = "done"
          /\ ev' = [ev EXCEPT !.realThrew = TRUE]
          /\ ret' = RetThrow("prover")
     ELSE ReturnMock(call, [ev EXCEPT !.realThrew = TRUE], secret, fill, now)
  /\ UNCHANGED <<call, witness, hash, last, appVars>>

\* ------------------------------------------------------------- verification
\* the structure check of verifyZKProof, left to right with short circuit;
\* reading .length of an undefined property throws a TypeError
structureCheck(rec) ==
  IF "pi_a" \in rec.absent THEN RetThrow("type")
  ELSE IF Len(rec.proof.pi_a) # 3 THEN RetBool(FALSE)
  ELSE IF "pi_b" \in rec.absent THEN RetThrow("type")
  ELSE IF Len(rec.proof.pi_b) # 3 THEN RetBool(FALSE)
  ELSE IF "pi_c" \in rec.absent THEN RetThrow("type")
  ELSE IF Len(rec.proof.pi_c) # 3 THEN RetBool(FALSE)
  ELSE IF "publicSignals" \in rec.absent THEN RetThrow("type")
  ELSE RetBool(Len(rec.publicSignals) >= 3)

\* the conversions to snarkjs form succeed: every property is there and every
\* text is accepted by BigInt()
convertible(rec) ==
  /\ rec.absent \cap {"pi_a", "pi_b", "pi_c", "publicSignals"} = {}
  /\ \A i \in 1..Len(rec.proof.pi_a) : BigIntOk(rec.proof.pi_a[i])
  /\ \A i \in 1..Len(rec.proof.pi_b) :
       \A j \in 1..Len(rec.proof.pi_b[i]) : BigIntOk(rec.proof.pi_b[i][j])
  /\ \A i \in 1..Len(rec.proof.pi_c) : BigIntOk(rec.proof.pi_c[i])
  /\ \A i \in 1..Len(rec.publicSignals) : BigIntOk(rec.publicSignals[i])

\* x => BigInt(x).toString()
toDec(x) == Dec(BigIntOf(x))

snarkjsArgs(rec) ==
  [signals |-> [i \in 1..Len(rec.publicSignals) |-> toDec(rec.publicSignals[i])],
   proof |-> [pi_a |-> [i \in 1..Len(rec.proof.pi_a) |-> toDec(rec.proof.pi_a[i])],
              pi_b |-> [i \in 1..Len(rec.proof.pi_b) |->
                          [j \in 1..Len(rec.proof.pi_b[i]) |-> toDec(rec.proof.pi_b[i][j])]],
              pi_c |-> [i \in 1..Len(rec.proof.pi_c) |-> toDec(rec.proof.pi_c[i])],
              protocol |-> rec.proof.protocol, curve |-> rec.proof.curve]]

\* enter the try block: fetch the verification key
StartFetch(c) ==
  /\ call' = c
  /\ pc' = "fetchKey"
  /\ ev' = [NoEv EXCEPT !.keyFetched = TRUE]
  /\ ret' = RetNone
  /\ UNCHANGED <<witness, hash, last, appVars>>

\* return from the structure check
ReturnStructure(c) ==
  /\ call' = c
  /\ pc' = "done"
  /\ ev' = NoEv
  /\ ret' = structureCheck(c.rec)
  /\ UNCHANGED <<witness, hash, last, appVars>>

\* verifyZKProof of the dual-mode library: branches on proof.isReal
verifyZKProof(rec) ==
  /\ pc = "idle"
  /\ LET c == [NoCall EXCEPT !.op = "verify", !.entry = "dual", !.rec = rec]
     IN IF rec.isReal # "true" THEN ReturnStructure(c) ELSE StartFetch(c)

\* verifyZKProof of the mock-only library: branches on verificationKeyPath
verifyZKProof_mockOnly(rec, keyPath) ==
  /\ pc = "idle"
  /\ LET c == [NoCall EXCEPT !.op = "verify", !.entry = "mockOnly", !.rec = rec,
                             !.keyPath = keyPath]
     IN IF ~keyPath THEN ReturnStructure(c) ELSE StartFetch(c)

\* verifyProof of zk-helpers: always fetches the key
verifyProof(rec) ==
  /\ pc = "idle"
  /\ StartFetch([NoCall EXCEPT !.op = "verify", !.entry = "browser", !.rec = rec,
                               !.keyPath = TRUE])

\* verifyZKProof of frontend/lib/zkproof.ts: always fetches the key
verifyZKProof_snarkjs(rec) ==
  /\ pc = "idle"
  /\ StartFetch([NoCall EXCEPT !.op = "verify", !.entry = "snarkjs", !.rec = rec])

\* fetch() and response.json() settle; then the conversions and the call of
\* snarkjs.groth16.verify; every exception ends in the catch block
KeySettle(outcome) ==
  /\ pc = "fetchKey"
  /\ IF outcome \in {"ok", "wrong"} /\ convertible(call.rec)
     THEN /\ pc' = "verifying"
          /\ ev' = [ev EXCEPT !.vkey = outcome, !.extCalled = TRUE,
                              !.extArgs = snarkjsArgs(call.rec)]
          /\ ret' = ret
     ELSE /\ pc' = "done"
          /\ ev' = [ev EXCEPT !.vkey = IF outcome \in {"ok", "wrong"} THEN outcome ELSE "none"]
          /\ ret' = RetBool(FALSE)
  /\ UNCHANGED <<call, witness, hash, last, appVars>>

\* snarkjs.groth16.verify settles
VerifySettle(outcome) ==
  /\ pc = "verifying"
  /\ outcome = "true" => ev.vkey = "ok"
  /\ pc' = "done"
  /\ ev' = [ev EXCEPT !.extReturned = outcome]
  /\ ret' = RetBool(outcome = "true")
  /\ UNCHANGED <<call, witness, hash, last, appVars>>

KeyOutcomes == {"ok", "wrong", "networkError", "badJson"}
VerifyOutcomes == {"true", "false", "throw"}

\* records handed to the verifiers: records the generators produce, and the
\* same with a property removed, an array resized or a text damaged
SampleFill == [i \in 1..8 |-> 1]
SampleWallet == <<"0", "x", "1">>
SampleCall == [NoCall EXCEPT !.domain = <<97>>, !.walletAddress = SampleWallet]
SampleWitness == [domain |-> stringToFieldElements_packed(<<97>>),
                  walletAddress |-> Lit(1), secret |-> Lit(1), jwtExpiry |-> 0]

SampleRecords ==
  LET out == JWTDomainVerifier(SampleWitness)
  IN { generateMockProof_dual(<<97>>, SampleWallet, TRUE, 1, SampleFill, 1).rec,
       generateMockProof(<<97>>, SampleWallet, TRUE, 1, SampleFill, 1).rec,
       realRecord("dual", SampleCall, SnarkProof(1),
                  [i \in 1..Len(out) |-> Dec(out[i])], 1) }

Damages == {"none", "twoSignals", "fourSignals", "noSignals", "noPiA", "piA4",
            "piBPair3", "piC2", "badSignal", "badPiC"}

damage(kind, rec) ==
  CASE kind = "twoSignals" -> [rec EXCEPT !.publicSignals = SubSeq(@, 1, 2)]
    [] kind = "fourSignals" -> [rec EXCEPT !.publicSignals = Append(@, Hex(Lit(7)))]
    [] kind = "noSignals" -> [rec EXCEPT !.publicSignals = <<>>, !.absent = {"publicSignals"}]
    [] kind = "noPiA" -> [rec EXCEPT !.proof.pi_a = <<>>, !.absent = {"pi_a"}]
    [] kind = "piA4" -> [rec EXCEPT !.proof.pi_a = Append(@, Hex(Lit(1)))]
    [] kind = "piBPair3" -> [rec EXCEPT !.proof.pi_b[1] = Append(@, Hex(Lit(1)))]
    [] kind = "piC2" -> [rec EXCEPT !.proof.pi_c = SubSeq(@, 1, 2)]
    [] kind = "badSignal" -> [rec EXCEPT !.publicSignals[1] = MalformedText]
    [] kind = "badPiC" -> [rec EXCEPT !.proof.pi_c[2] = MalformedText]
    [] OTHER -> rec

VerifyInputs == {damage(k, r) : k \in Damages, r \in SampleRecords}

\* an awaited promise that never settles
Hang ==
  /\ pc \in {"probeWasm", "probeZkey", "proving", "fetchKey", "verifying"}
  /\ pc' = "hung"
  /\ UNCHANGED <<call, witness, ev, ret, hash, last, appVars>>

\* the caller starts over with a fresh call (no module state is kept)
NewCall ==
  /\ pc = "done"
  /\ pc' = "idle"
  /\ call' = NoCall
  /\ witness' = NoWitness
  /\ ev' = NoEv
  /\ ret' = RetNone
  /\ UNCHANGED <<hash, last, appVars>>

ProbeOutcomes == {"ok", "notok", "throw"}

Next ==
  \/ \E d \in ReqDomains, a \in WalletAddresses, fm \in BOOLEAN, en \in BOOLEAN,
        s \in Secrets, f \in Fills, t \in Times :
        generateZKProof(d, a, fm, en, s, f, t)
  \/ \E o \in ProbeOutcomes, s \in Secrets, f \in Fills, t \in Times :
        ProbeWasmSettle(o, s, f, t)
  \/ \E o \in ProbeOutcomes, s \in Secrets, f \in Fills, t \in Times :
        ProbeZkeySettle(o, s, f, t)
  \/ \E d \in ReqDomains, a \in WalletAddresses, um \in BOOLEAN, hp \in BOOLEAN,
        en \in BOOLEAN, s \in Secrets, f \in Fills, t \in Times :
        generateProofBrowser(d, a, um, hp, en, s, f, t)
  \/ \E d \in ReqDomains, a \in WalletAddresses, x \in Expiries :
        generateZKProof_snarkjs(d, a, x)
  \/ \E d \in ReqDomains, a \in WalletAddresses, en \in BOOLEAN,
        s \in Secrets, f \in Fills, t \in Times :
        GenerateMockOnly(d, a, en, s, f, t)
  \/ \E r \in Rand, t \in Times : ProverResolve(r, t)
  \/ \E s \in Secrets, f \in Fills, t \in Times : ProverReject(s, f, t)
  \/ \E rec \in VerifyInputs : verifyZKProof(rec)
  \/ \E rec \in VerifyInputs, kp \in BOOLEAN : verifyZKProof_mockOnly(rec, kp)
  \/ \E rec \in VerifyInputs : verifyProof(rec)
  \/ \E rec \in VerifyInputs : verifyZKProof_snarkjs(rec)
  \/ \E o \in KeyOutcomes : KeySettle(o)
  \/ \E o \in VerifyOutcomes : VerifySettle(o)
  \/ Hang
  \/ NewCall

Spec == Init /\ [][Next]_vars
\* every pending promise settles or is known never to settle, and the
\* continuations of settled promises run
Await ==
  \/ \E o \in ProbeOutcomes, s \in Secrets, f \in Fills, t \in Times :
        ProbeWasmSettle(o, s, f, t)
  \/ \E o \in ProbeOutcomes, s \in Secrets, f \in Fills, t \in Times :
        ProbeZkeySettle(o, s, f, t)
  \/ \E r \in Rand, t \in Times : ProverResolve(r, t)
  \/ \E s \in Secrets, f \in Fills, t \in Times : ProverReject(s, f, t)
  \/ \E o \in KeyOutcomes : KeySettle(o)
  \/ \E o \in VerifyOutcomes : VerifySettle(o)
  \/ Hang

FairSpec == Spec /\ WF_vars(Await)

\* ------------------------------------------------- two requests in a row
\* the caller keeps the record it got and asks again (page.tsx generateProof
\* runs once per click; the library keeps nothing between two calls)
Repeat ==
  /\ pc = "done"
  /\ call.op = "generate"
  /\ ret.kind = "record"
  /\ last = NoLast
  /\ last' = [call |-> call, ret |-> ret, ev |-> ev]
  /\ pc' = "idle"
  /\ call' = NoCall
  /\ witness' = NoWitness
  /\ ev' = NoEv
  /\ ret' = RetNone
  /\ hash' = hash
  /\ UNCHANGED appVars

\* the second request repeats the first: same library, domain and address
asBefore(entry, domain, walletAddress) ==
  last # NoLast
    => /\ last.call.entry = entry
       /\ last.call.domain = domain
       /\ last.call.walletAddress = walletAddress

\* requests that take the mock path at once, the second repeating the first
TwoCallNext ==
  \/ /\ pc = "idle"
     /\ \E d \in ReqDomains, a \in WalletAddresses, en \in BOOLEAN,
           s \in Secrets, f \in Fills, t \in Times :
           asBefore("dual", d, a) /\ generateZKProof(d, a, TRUE, en, s, f, t)
  \/ /\ pc = "idle"
     /\ \E d \in ReqDomains, a \in WalletAddresses,
           en \in BOOLEAN, s \in Secrets, f \in Fills, t \in Times :
           asBefore("browser", d, a) /\ generateProofBrowser(d, a, TRUE, FALSE, en, s, f, t)
  \/ /\ pc = "idle"
     /\ \E d \in ReqDomains, a \in WalletAddresses, en \in BOOLEAN,
           s \in Secrets, f \in Fills, t \in Times :
           asBefore("mockOnly", d, a) /\ GenerateMockOnly(d, a, en, s, f, t)
  \/ Repeat

TwoCallSpec == Init /\ [][TwoCallNext]_vars

\* ------------------------------------------- the commitment chain on its own
HashSchemes == {"packed", "perByte", "mockOnly"}

\* domains at and one byte beyond the capacity of each encoder
LongDomains ==
  {[i \in 1..n |-> IF i = n THEN b ELSE 97] :
     n \in {MAX_DOMAIN_LEN, MAX_DOMAIN_LEN + 1, PACKED_CAPACITY, PACKED_CAPACITY + 1},
     b \in Bytes}

HashInputs ==
  [domain : Domains \cup LongDomains, walletAddress : WalletAddresses, secret : Secrets]

\* the domain encoder of each library; none of them has a failing path
encodingOf(scheme, domain) ==
  [ok |-> TRUE,
   v |-> IF scheme = "packed" THEN stringToFieldElements_packed(domain)
         ELSE stringToFieldElements(domain, MAX_DOMAIN_LEN)]

\* the address encoder of each library
walletFieldOf(scheme, address) ==
  IF scheme = "perByte" THEN addressToField(address) ELSE addressToField_dual(address)

tripleOf(scheme, in) ==
  CASE scheme = "packed" -> computeHashes(in.domain, in.walletAddress, generateSecret(in.secret))
    [] scheme = "perByte" -> computeTriple_helpers(in.domain, in.walletAddress, generateSecret(in.secret))
    [] OTHER -> computeTriple_mockOnly(in.domain, in.walletAddress, generateSecret(in.secret))

HashInit ==
  /\ AppIdle
  /\ pc = "idle"
  /\ last = NoLast
  /\ call = NoCall
  /\ witness = NoWitness
  /\ ev = NoEv
  /\ ret = RetNone
  /\ hash \in {h \in [scheme : HashSchemes, x : HashInputs, y : HashInputs,
                         outx : {NoOut}, outy : {NoOut}] :
                 Len(h.x.domain) = Len(h.y.domain)}

\* evaluate the chain on both inputs
Compute ==
  /\ ~hash.outx.done
  /\ LET ox == tripleOf(hash.scheme, hash.x)
         oy == tripleOf(hash.scheme, hash.y)
     IN hash' = [hash EXCEPT
                   !.outx = [done |-> TRUE, ok |-> ox.ok, t |-> ox.t,
                             enc |-> encodingOf(hash.scheme, hash.x.domain),
                             wallet |-> walletFieldOf(hash.scheme, hash.x.walletAddress)],
                   !.outy = [done |-> TRUE, ok |-> oy.ok, t |-> oy.t,
                             enc |-> encodingOf(hash.scheme, hash.y.domain),
                             wallet |-> walletFieldOf(hash.scheme, hash.y.walletAddress)]]
  /\ UNCHANGED <<pc, call, witness, ev, ret, last, appVars>>

HashNext == Compute

HashSpec == HashInit /\ [][HashNext]_vars

\* ------------------------------------------------------------------- claims
\* how a consumer reads the mode of a record (!proof.isReal is the mock branch)
modeOf(rec) == IF rec.isReal = "true" THEN "real" ELSE "mock"

Returned == pc = "done" /\ call.op = "generate"
Verified == pc = "done" /\ call.op = "verify"

\* the inputs the encoders of the entered library accept
inputAccepted(c) ==
  /\ c.entropy
  /\ IF c.entry \in {"dual", "mockOnly"}
     THEN addressToField_dual(c.walletAddress).ok
     ELSE addressToField(c.walletAddress).ok

\* C1: a proof request that is not forced to mock and whose real generation
\* throws still returns a record produced by the mock path and marked mock;
\* nothing thrown by the real backend reaches the caller (stated for the
\* requests whose input the encoders accept).
C1_RealFailureFallsBack ==
  (Returned /\ call.entry \in {"dual", "snarkjs"} /\ ~call.forceMock /\ ev.realThrew
     /\ inputAccepted(call))
    => /\ ret.kind = "record"
       /\ ev.mockRan
       /\ modeOf(ret.rec) = "mock"

C3_ProbeGatesProver ==
  /\ (call.op = "generate" /\ call.entry = "dual" /\ ev.proverInvoked)
       => (ev.wasmOk = "ok" /\ ev.zkeyOk = "ok")
  /\ (Returned /\ call.entry = "dual" /\ ev.probed /\ call.entropy
        /\ ~(ev.wasmOk = "ok" /\ ev.zkeyOk = "ok"))
       => (ret.kind = "record" /\ modeOf(ret.rec) = "mock")

\* C3 amended: the prover is invoked only after both artifacts were found;
\* when an artifact is unreachable or the probe throws, the request runs the
\* mock generator without invoking the prover, and returns a mock record
\* exactly when the wallet address parses and the random source is there;
\* otherwise the mock generator's error reaches the caller.
C3_ProbeGatesProver_Amended ==
  /\ (call.op = "generate" /\ call.entry = "dual" /\ ev.proverInvoked)
       => (ev.wasmOk = "ok" /\ ev.zkeyOk = "ok")
  /\ (Returned /\ call.entry = "dual" /\ ev.probed
        /\ ~(ev.wasmOk = "ok" /\ ev.zkeyOk = "ok"))
       => /\ ~ev.proverInvoked
          /\ ev.mockRan
          /\ IF inputAccepted(call)
             THEN ret.kind = "record" /\ modeOf(ret.rec) = "mock"
             ELSE ret.kind = "throw" /\ ret.err \in {"encoder", "entropy"}

C3_Witness ==
  /\ Returned /\ call.entry = "dual" /\ ev.probed
  /\ ev.wasmOk = "ok" /\ ev.zkeyOk = "notok"
  /\ ret.kind = "record"

\* C4: every returned record carries its mode, and the mode is real exactly
\* when the proof material and signals came from the prover.
C4_ModeDisclosed ==
  (Returned /\ call.entry \in {"dual", "browser"} /\ ret.kind = "record")
    => /\ ret.rec.isReal \in {"true", "false"}
       /\ (ret.rec.isReal = "true") <=> ev.fromProver

\* C5: every proof request eventually returns.
C5_EventuallyReturns ==
  (call.op = "generate" /\ call.entry \in {"dual", "browser"}) ~> (pc = "done")

\* the shape the structure check is specified to accept
wellShaped(rec) ==
  /\ rec.absent = {}
  /\ Len(rec.proof.pi_a) = 3
  /\ Len(rec.proof.pi_b) = 3
  /\ \A i \in 1..Len(rec.proof.pi_b) : Len(rec.proof.pi_b[i]) = 2
  /\ Len(rec.proof.pi_c) = 3
  /\ Len(rec.publicSignals) = 3

\* C6: on the structure-check path the verifier answers true exactly for a
\* record with three components of the expected arity and three signals.
C6_StructureIff ==
  (Verified /\ call.entry \in {"dual", "mockOnly"} /\ ~ev.keyFetched
     /\ ret.kind = "bool")
    => (ret.val <=> wellShaped(call.rec))

\* C7: verification never throws.
C7_NeverThrows ==
  (Verified /\ call.entry \in {"dual", "browser", "snarkjs"}) => ret.kind # "throw"

\* C8: with a real record and a key, the answer is the boolean of the external
\* primitive called on (key, signals, proof) of the record; for a mock record
\* or without a key, neither the key fetch nor the primitive is used.
C8_DelegatesOrStructure ==
  (call.op = "verify" /\ call.entry \in {"dual", "mockOnly"})
    => /\ (pc = "done" /\ ev.extReturned \in {"true", "false"})
            => /\ ret = RetBool(ev.extReturned = "true")
               /\ ev.extArgs = snarkjsArgs(call.rec)
       /\ (modeOf(call.rec) = "mock" \/ (call.entry = "mockOnly" /\ ~call.keyPath))
            => (~ev.keyFetched /\ ~ev.extCalled)

\* C9: domainHash depends on the domain only, walletBinding on domain and
\* wallet, nullifier on domain and secret; another secret gives another
\* nullifier.
C9_Dependencies ==
  (hash.outx.done /\ hash.outx.ok /\ hash.outy.ok /\ hash.x.domain = hash.y.domain)
    => /\ hash.outx.t.domainHash = hash.outy.t.domainHash
       /\ hash.x.walletAddress = hash.y.walletAddress
            => hash.outx.t.walletBinding = hash.outy.t.walletBinding
       /\ hash.x.secret = hash.y.secret
            => hash.outx.t.nullifier = hash.outy.t.nullifier
       /\ hash.x.secret # hash.y.secret
            => hash.outx.t.nullifier # hash.outy.t.nullifier

C9_Witness ==
  /\ hash.outx.done /\ hash.outx.ok /\ hash.outy.ok
  /\ hash.x.domain = hash.y.domain
  /\ hash.x.walletAddress = hash.y.walletAddress
  /\ hash.x.secret # hash.y.secret
  /\ hash.outx.t.walletBinding = hash.outy.t.walletBinding

\* C10: two distinct domains of equal length have distinct domain hashes.
C10_DomainSensitive ==
  (hash.outx.done /\ hash.outx.ok /\ hash.outy.ok
     /\ Len(hash.x.domain) = Len(hash.y.domain) /\ hash.x.domain # hash.y.domain)
    => hash.outx.t.domainHash # hash.outy.t.domainHash

\* the chain as specified for the one-byte-per-element scheme: every group of
\* 16 elements (short final group zero padded) hashed whole, then all the
\* intermediates hashed; a single group's hash is the final value
allGroupsHash(enc) ==
  LET numGroups == (Len(enc) + CHUNK - 1) \div CHUNK
      group(g) == [j \in 1..CHUNK |->
                     IF CHUNK * (g - 1) + j <= Len(enc)
                     THEN enc[CHUNK * (g - 1) + j] ELSE Lit(0)]
      intermediate == [g \in 1..numGroups |-> Poseidon(group(g))]
  IN IF numGroups = 1 THEN intermediate[1] ELSE Poseidon(intermediate)

\* C11: in the one-byte-per-element scheme the domain hash is the hash of all
\* the group hashes, each group hash taken over all 16 elements of its group.
C11_AllGroupsHashed ==
  (hash.outx.done /\ hash.outx.ok /\ hash.scheme \in {"perByte", "mockOnly"})
    => hash.outx.t.domainHash
         = allGroupsHash(stringToFieldElements(hash.x.domain, MAX_DOMAIN_LEN))

C13_PerByteMatchesCircuit ==
  (call.op = "generate" /\ call.entry = "browser" /\ ev.proverInvoked)
    => LET h == computeTriple_helpers(call.domain, call.walletAddress, witness.secret)
       IN /\ h.ok
          /\ JWTDomainVerifierLarge(witness)
               = <<h.t.domainHash, h.t.nullifier, h.t.walletBinding>>

\* the capacity of each encoder, in bytes
capacityOf(scheme) == IF scheme = "packed" THEN PACKED_CAPACITY ELSE MAX_DOMAIN_LEN

RECURSIVE Flatten(_)
Flatten(ss) == IF ss = <<>> THEN <<>> ELSE Head(ss) \o Flatten(Tail(ss))

\* the bytes an encoding stands for (the bytes of a domain are not zero)
decodeDomain(scheme, elements) ==
  IF scheme = "packed"
  THEN Flatten([k \in 1..Len(elements) |-> Tail(elements[k])])
  ELSE Flatten([k \in 1..Len(elements) |-> StripZeros(Tail(elements[k]))])

\* C14: the domain encoder succeeds on a domain of at most the capacity of its
\* scheme, and the encoding stands for every byte of the domain; on a longer
\* domain it fails, it never returns an encoding that lost trailing bytes.
C14_NoSilentTruncation ==
  hash.outx.done
    => IF Len(hash.x.domain) <= capacityOf(hash.scheme)
       THEN /\ hash.outx.enc.ok
            /\ decodeDomain(hash.scheme, hash.outx.enc.v) = hash.x.domain
       ELSE ~hash.outx.enc.ok

\* the hexadecimal digits of an address text: lower case, without the prefix
hexDigitsOf(address) ==
  LET lower == toLowerCase(address)
  IN IF Has0xPrefix(lower) THEN SubSeq(lower, 3, Len(lower)) ELSE lower

isHexText(h) == h # <<>> /\ \A i \in 1..Len(h) : h[i] \in HexChars

\* C15: the address encoder returns the base-16 value of the hexadecimal
\* digits of the address, whatever the letter case and with or without the
\* "0x" prefix, and fails on a text with a character that is not a hex digit.
C15_AddressCanonical ==
  hash.outx.done
    => LET h == hexDigitsOf(hash.x.walletAddress)
       IN IF isHexText(h)
          THEN /\ hash.outx.wallet.ok
               /\ hash.outx.wallet.v = Lit(RadixValue(h, 16))
          ELSE ~hash.outx.wallet.ok

\* the modulus of the BN254 scalar field, little-endian base-256 digits
\* 21888242871839275222246405745257275088548364400416034343698204186575808495617
FieldModulus ==
  <<0, 1, 0, 0, 240, 147, 245, 225, 67, 145, 112, 185, 121, 72, 232, 51, 40,
    93, 88, 129, 129, 182, 69, 80, 184, 41, 160, 49, 225, 114, 78, 100, 48>>

\* a < b for digit sequences without a high zero digit
RECURSIVE digitsLess(_, _)
digitsLess(a, b) ==
  IF Len(a) # Len(b) THEN Len(a) < Len(b)
  ELSE IF a = <<>> THEN FALSE
  ELSE IF a[Len(a)] # b[Len(b)] THEN a[Len(a)] < b[Len(b)]
  ELSE digitsLess(SubSeq(a, 1, Len(a) - 1), SubSeq(b, 1, Len(b) - 1))

\* a hash output is a field element; an integer is one when below the modulus
isFieldElement(v) ==
  v # <<>> /\ (v[1] = 1 \/ (v[1] = 0 /\ digitsLess(Tail(v), Tail(FieldModulus))))

\* C16: every field of the input object handed to the prover, the secret
\* included, is below the field modulus.
C16_BelowModulus ==
  (call.op = "generate" /\ call.entry \in {"dual", "browser"} /\ ev.proverInvoked)
    => /\ isFieldElement(witness.secret)
       /\ isFieldElement(witness.walletAddress)
       /\ \A i \in 1..Len(witness.domain) : isFieldElement(witness.domain[i])

\* C17: the secret drawn for a proof request is handed to the prover only: it
\* is not written to the console and is not a value of the returned record.
C17_SecretStaysInside ==
  (call.op = "generate" /\ call.entry = "dual" /\ ev.proverInvoked)
    => /\ \A e \in ev.console : ~(e.name = "secret" /\ e.v = witness.secret)
       /\ (pc = "done" /\ ret.kind = "record")
            => \A i \in 1..Len(ret.rec.publicSignals) :
                 BigIntOf(ret.rec.publicSignals[i]) # witness.secret

walletFieldIn(c) ==
  IF c.entry \in {"dual", "mockOnly"}
  THEN addressToField_dual(c.walletAddress) ELSE addressToField(c.walletAddress)

\* C19: every returned record, mock or real, carries exactly three signals:
\* the domain hash, then the nullifier H(domainHash, secret), then the wallet
\* binding H(domainHash, walletField); the records packaged from the output
\* of the circuits show the order in which the circuits expose their outputs.
C19_ThreeSignalsInOrder ==
  (Returned /\ ret.kind = "record")
    => /\ Len(ret.rec.publicSignals) = 3
       /\ LET domainHash == BigIntOf(ret.rec.publicSignals[1])
          IN /\ \E s \in Secrets :
                  ret.rec.publicSignals[2]
                    = Hex(Poseidon(<<domainHash, generateSecret(s)>>))
             /\ ret.rec.publicSignals[3]
                  = Hex(Poseidon(<<domainHash, walletFieldIn(call).v>>))

\* two mock generations of the same library for the same domain and wallet
\* address, both returning a record
sameMockRequestTwice ==
  /\ Returned /\ ret.kind = "record" /\ last.ret.kind = "record"
  /\ ev.mockRan /\ last.ev.mockRan
  /\ last.call.entry = call.entry
  /\ last.call.domain = call.domain
  /\ last.call.walletAddress = call.walletAddress

\* C20 as stated: two mock generations with the same domain and the same
\* wallet address report the same publicSignals.
C20_MockSignalsRepeat ==
  sameMockRequestTwice => ret.rec.publicSignals = last.ret.rec.publicSignals

\* C20 amended: two mock generations with the same domain and the same wallet
\* address report the same domainHash and the same walletBinding; their
\* nullifiers are equal exactly when both drew the same secret; their proof
\* material differs whenever their filler draws differ.
C20_MockSignalsRepeat_Amended ==
  sameMockRequestTwice
    => /\ ret.rec.publicSignals[1] = last.ret.rec.publicSignals[1]
       /\ ret.rec.publicSignals[3] = last.ret.rec.publicSignals[3]
       /\ (ret.rec.publicSignals[2] = last.ret.rec.publicSignals[2])
            <=> (ev.mockSecret = last.ev.mockSecret)
       /\ (ev.mockFill # last.ev.mockFill) => (ret.rec.proof # last.ret.rec.proof)

C20_Witness ==
  /\ sameMockRequestTwice
  /\ call.entry = "dual"
  /\ ev.mockSecret # last.ev.mockSecret
  /\ ev.mockFill # last.ev.mockFill
  /\ ret.rec.publicSignals[1] = last.ret.rec.publicSignals[1]

\* C21: a request whose wallet address the encoder rejects fails in every
\* mode with the encoder's error: no record is returned, the prover is not
\* invoked, and the error is not handled as a failure of the real backend
\* (the catch block of the real-to-mock fallback does not run on it).
C21_EncoderErrorFatal ==
  (Returned /\ call.entry \in {"dual", "browser"} /\ call.entropy
     /\ ~walletFieldIn(call).ok)
    => /\ ret.kind = "throw"
       /\ ret.err = "encoder"
       /\ ~ev.proverInvoked
       /\ ~ev.realThrew


\* ------------------------------------------------------------ the x402 route
\* The two revisions of the route module: "dynamic" builds an x402 server per
\* request with the negotiated price, "static" caches one server.
Variants == {"dynamic", "static"}

\* the accounts cdp.evm.createAccount() can answer with
Accounts == 1..MaxRequests

\* NextResponse of a request
respond(q, status, success, content) ==
  [q EXCEPT !.pc = "done", !.status = status, !.success = success,
            !.content = content]

\* GET: await initializePayToAddress() / await initializeServer(), up to the
\* first await that leaves the event loop
GET(r) ==
  /\ x402.reqs[r].pc = "idle"
  /\ LET q == [x402.reqs[r] EXCEPT !.route = "GET"]
         cached == IF x402.variant = "dynamic"
                   THEN x402.payToAddress # NoAddress
                   ELSE x402.httpServer # NoAddress /\ x402.payToAddress # NoAddress
     IN IF cached
        THEN x402' = [x402 EXCEPT
                        !.reqs[r] = [q EXCEPT !.pc = "process",
                                              !.payTo = IF x402.variant = "dynamic"
                                                        THEN x402.payToAddress
                                                        ELSE x402.httpServer]]
        ELSE x402' = [x402 EXCEPT
                        !.createAccountCalls = @ + 1,
                        !.reqs[r] = [q EXCEPT !.pc = "createAccount"]]
  /\ UNCHANGED exceptX402

\* await cdp.evm.createAccount() settles: the address is cached; the static
\* revision also caches the server built for that address
createAccountSettle(r, ok, address) ==
  /\ x402.reqs[r].pc = "createAccount"
  /\ IF ~ok
     THEN x402' = [x402 EXCEPT !.reqs[r] = respond(@, 500, FALSE, FALSE)]
     ELSE IF x402.variant = "dynamic"
     THEN x402' = [x402 EXCEPT
                     !.payToAddress = address,
                     !.reqs[r] = [@ EXCEPT !.pc = "process", !.payTo = address]]
     ELSE x402' = [x402 EXCEPT
                     !.payToAddress = address,
                     !.httpServer = address,
                     !.reqs[r] = [@ EXCEPT !.pc = "initialize"]]
  /\ UNCHANGED exceptX402

\* static revision: await httpServer.initialize() settles and the request goes
\* on with the module's server as it is then
initializeSettle(r, ok) ==
  /\ x402.reqs[r].pc = "initialize"
  /\ IF ok
     THEN x402' = [x402 EXCEPT
                     !.reqs[r] = [@ EXCEPT !.pc = "process", !.payTo = x402.httpServer]]
     ELSE x402' = [x402 EXCEPT !.reqs[r] = respond(@, 500, FALSE, FALSE)]
  /\ UNCHANGED exceptX402

ResultTypes == {"payment-error", "payment-verified", "no-payment-required", "throw"}

\* await httpServer.processHTTPRequest(context) settles (the dynamic revision
\* fetched the price and built its server before it)
processHTTPRequestSettle(r, type) ==
  /\ x402.reqs[r].pc = "process"
  /\ x402' = [x402 EXCEPT !.reqs[r] =
       CASE type = "payment-error" -> respond(@, 402, FALSE, FALSE)
         [] type = "payment-verified" -> [@ EXCEPT !.pc = "settling", !.verified = TRUE]
         [] type = "no-payment-required" -> respond(@, 200, TRUE, FALSE)
         [] OTHER -> respond(@, 500, FALSE, FALSE)]
  /\ UNCHANGED exceptX402

SettlementOutcomes == {"success", "failed", "threw"}

\* await httpServer.processSettlement(...) settles; only the dynamic revision
\* puts the premium data in its 200 response
processSettlementSettle(r, outcome) ==
  /\ x402.reqs[r].pc = "settling"
  /\ x402' = [x402 EXCEPT !.reqs[r] =
       CASE outcome = "success" ->
              respond([@ EXCEPT !.settled = "success"], 200, TRUE,
                      x402.variant = "dynamic")
         [] outcome = "failed" -> respond([@ EXCEPT !.settled = "failed"], 402, FALSE, FALSE)
         [] OTHER -> respond([@ EXCEPT !.settled = "threw"], 500, FALSE, FALSE)]
  /\ UNCHANGED exceptX402

\* POST /unlock, up to await generateMarkdownGuide(topic)
unlock(r) ==
  /\ x402.reqs[r].pc = "idle"
  /\ x402' = [x402 EXCEPT !.reqs[r] = [@ EXCEPT !.route = "unlock", !.pc = "guide"]]
  /\ UNCHANGED exceptX402

\* generateMarkdownGuide settles: the guide is sent, or 500
generateMarkdownGuideSettle(r, ok) ==
  /\ x402.reqs[r].pc = "guide"
  /\ x402' = [x402 EXCEPT !.reqs[r] =
       IF ok THEN respond(@, 200, TRUE, TRUE) ELSE respond(@, 500, FALSE, FALSE)]
  /\ UNCHANGED exceptX402

X402Init ==
  /\ pc = "idle"
  /\ call = NoCall
  /\ witness = NoWitness
  /\ ev = NoEv
  /\ ret = RetNone
  /\ hash = NoHash
  /\ last = NoLast
  /\ x402 \in {[NoX402 EXCEPT !.variant = v] : v \in Variants}
  /\ pricing = NoPricing
  /\ tier = NoTier
  /\ quote = NoQuote
  /\ db = NoDb
  /\ store = NoStore
  /\ jwt = NoJwt

X402Next ==
  \/ \E r \in Requests : GET(r)
  \/ \E r \in Requests, ok \in BOOLEAN, a \in Accounts : createAccountSettle(r, ok, a)
  \/ \E r \in Requests, ok \in BOOLEAN : initializeSettle(r, ok)
  \/ \E r \in Requests, t \in ResultTypes : processHTTPRequestSettle(r, t)
  \/ \E r \in Requests, o \in SettlementOutcomes : processSettlementSettle(r, o)
  \/ \E r \in Requests : unlock(r)
  \/ \E r \in Requests, ok \in BOOLEAN : generateMarkdownGuideSettle(r, ok)

X402Spec == X402Init /\ [][X402Next]_vars

\* C22: a response that carries the premium data or the guide is sent only
\* after the request's payment was verified and its settlement succeeded
C22_ContentOnlyAfterSettlement ==
  \A r \in Requests :
    x402.reqs[r].content
      => x402.reqs[r].verified /\ x402.reqs[r].settled = "success"

\* C30: createAccount is called at most once and all requests that reached
\* their payment requirements use the same pay-to address
C30_OneReceivingAccount ==
  /\ x402.createAccountCalls <= 1
  /\ \A r1, r2 \in Requests :
       (x402.reqs[r1].payTo # NoAddress /\ x402.reqs[r2].payTo # NoAddress)
         => x402.reqs[r1].payTo = x402.reqs[r2].payTo


\* ------------------------------------------------------ the negotiated price
MaxCents == 11
MaxRound == 2
MaxSteps == 5

\* new_price_cents and current_price_cents as the agent may pass them
PriceInputs == (-1)..MaxCents

\* domains as the agent receives them (characters)
PricingDomains ==
  { <<"m", ".", "e", "d", "u">>, <<"f", ".", "o", "r", "g">>,
    <<"g", ".", "c", "o", "m">>, <<"e", "d", "u">>,
    <<"u", "n", "k", "n", "o", "w", "n">> }

\* String.prototype.endsWith
endsWith(s, suffix) ==
  /\ Len(s) >= Len(suffix)
  /\ SubSeq(s, Len(s) - Len(suffix) + 1, Len(s)) = suffix

isEduDomain(domain) == endsWith(domain, <<".", "e", "d", "u">>)

isOrgDomain(domain) == endsWith(domain, <<".", "o", "r", "g">>)

PRICING ==
  [commercial |-> [start |-> 10, floor |-> 5, tiers |-> <<10, 8, 6, 5>>],
   eduOrg |-> [start |-> 5, floor |-> 1, tiers |-> <<5, 4, 3, 2, 1>>]]

getPricingConfig(domain) ==
  IF isEduDomain(domain) \/ isOrgDomain(domain) THEN PRICING.eduOrg
  ELSE PRICING.commercial

getStartingPrice(domain) == getPricingConfig(domain).start

getFloorPrice(domain) == getPricingConfig(domain).floor

\* Array.prototype.indexOf, counting from 1; 0 stands for -1
indexOf(seq, x) ==
  IF \E i \in 1..Len(seq) : seq[i] = x
  THEN CHOOSE i \in 1..Len(seq) : seq[i] = x /\ \A j \in 1..(i - 1) : seq[j] # x
  ELSE 0

\* a variant that steps up the list instead of down
getNextPrice_upward(domain, currentCents) ==
  LET config == getPricingConfig(domain)
      currentIndex == indexOf(config.tiers, currentCents)
  IN IF currentIndex <= 1 THEN config.start
     ELSE config.tiers[currentIndex - 1]

getNextPrice(domain, currentCents) ==
  LET config == getPricingConfig(domain)
      currentIndex == indexOf(config.tiers, currentCents)
      lower == {i \in 1..Len(config.tiers) : config.tiers[i] < currentCents}
  IN IF currentIndex = 0
     THEN IF lower # {}
          THEN config.tiers[CHOOSE i \in lower : \A j \in lower : i <= j]
          ELSE config.floor
     ELSE IF currentIndex >= Len(config.tiers) THEN config.floor
     ELSE config.tiers[currentIndex + 1]

hasSession(w) == pricing.pricingState[w] # NoSession

\* getCurrentPrice(walletAddress, domain)
getCurrentPrice(w, domain) ==
  /\ LET existing == pricing.pricingState[w]
         startingCents == getStartingPrice(domain)
     IN IF hasSession(w)
        THEN pricing' = [pricing EXCEPT
                           !.ret = [op |-> "getCurrentPrice", success |-> TRUE,
                                    cents |-> existing.cents, round |-> existing.round]]
        ELSE pricing' = [pricing EXCEPT
                           !.pricingState[w] = [cents |-> startingCents, round |-> 0,
                                                domain |-> domain],
                           !.ret = [op |-> "getCurrentPrice", success |-> TRUE,
                                    cents |-> startingCents, round |-> 0]]
  /\ UNCHANGED exceptPricing

\* a variant without the floor test
updatePrice_noFloor(w, newPriceCents) ==
  /\ LET existing == pricing.pricingState[w]
     IN IF ~hasSession(w)
        THEN pricing' = [pricing EXCEPT
                           !.ret = [op |-> "updatePrice", success |-> FALSE,
                                    cents |-> 10, round |-> 0]]
        ELSE /\ existing.round < MaxRound
             /\ pricing' = [pricing EXCEPT
                              !.pricingState[w] = [cents |-> newPriceCents,
                                                   round |-> existing.round + 1,
                                                   domain |-> existing.domain],
                              !.ret = [op |-> "updatePrice", success |-> TRUE,
                                       cents |-> newPriceCents, round |-> 0]]
  /\ UNCHANGED exceptPricing

\* updatePrice(walletAddress, newPriceCents); the round counter is capped
updatePrice(w, newPriceCents) ==
  /\ LET existing == pricing.pricingState[w]
         floor == getFloorPrice(existing.domain)
     IN IF ~hasSession(w)
        THEN pricing' = [pricing EXCEPT
                           !.ret = [op |-> "updatePrice", success |-> FALSE,
                                    cents |-> 10, round |-> 0]]
        ELSE IF newPriceCents < floor
        THEN pricing' = [pricing EXCEPT
                           !.ret = [op |-> "updatePrice", success |-> FALSE,
                                    cents |-> floor, round |-> 0]]
        ELSE /\ existing.round < MaxRound
             /\ pricing' = [pricing EXCEPT
                              !.pricingState[w] = [cents |-> newPriceCents,
                                                   round |-> existing.round + 1,
                                                   domain |-> existing.domain],
                              !.ret = [op |-> "updatePrice", success |-> TRUE,
                                       cents |-> newPriceCents, round |-> 0]]
  /\ UNCHANGED exceptPricing

PricingInit ==
  /\ pc = "idle"
  /\ call = NoCall
  /\ witness = NoWitness
  /\ ev = NoEv
  /\ ret = RetNone
  /\ hash = NoHash
  /\ last = NoLast
  /\ x402 = NoX402
  /\ pricing = NoPricing
  /\ tier = NoTier
  /\ quote = NoQuote
  /\ db = NoDb
  /\ store = NoStore
  /\ jwt = NoJwt

\* the domains sessions are opened with: one of each pricing class and one
\* that only looks like an edu domain
SessionDomains ==
  { <<"m", ".", "e", "d", "u">>, <<"g", ".", "c", "o", "m">>, <<"e", "d", "u">> }

PricingNext ==
  \/ \E w \in Wallets, d \in SessionDomains : getCurrentPrice(w, d)
  \/ \E w \in Wallets, n \in PriceInputs : updatePrice(w, n)

PricingSpec == PricingInit /\ [][PricingNext]_vars

\* the stored price of every session is at least its domain's floor
AboveFloor ==
  \A w \in Wallets :
    hasSession(w)
      => pricing.pricingState[w].cents >= getFloorPrice(pricing.pricingState[w].domain)

\* a step in which updatePrice answered success=false
UpdateRefused ==
  /\ pricing'.ret.op = "updatePrice"
  /\ ~pricing'.ret.success

C24_OnlyLowers ==
  /\ [][\A w \in Wallets :
          (hasSession(w) /\ pricing'.pricingState[w] # pricing.pricingState[w])
            => pricing'.pricingState[w].cents <= pricing.pricingState[w].cents]_vars
  /\ [](\A w \in Wallets :
          hasSession(w)
            => pricing.pricingState[w].cents
                 <= getStartingPrice(pricing.pricingState[w].domain))


\* ------------------------------------------------- walking the tier list
\* case 'get_next_tier_price' of processToolCall, asked again with its own
\* answer; the step counter is capped
get_next_tier_price ==
  /\ tier.steps < MaxSteps
  /\ tier' = [tier EXCEPT !.prev = tier.cents,
                          !.cents = getNextPrice(tier.domain, tier.cents),
                          !.steps = @ + 1]
  /\ UNCHANGED exceptTier

TierInit ==
  /\ pc = "idle"
  /\ call = NoCall
  /\ witness = NoWitness
  /\ ev = NoEv
  /\ ret = RetNone
  /\ hash = NoHash
  /\ last = NoLast
  /\ x402 = NoX402
  /\ pricing = NoPricing
  /\ quote = NoQuote
  /\ db = NoDb
  /\ store = NoStore
  /\ jwt = NoJwt
  /\ tier \in {[domain |-> d, from |-> c, prev |-> c, cents |-> c, steps |-> 0] :
                 d \in PricingDomains, c \in PriceInputs}

TierNext == get_next_tier_price

TierSpec == TierInit /\ [][TierNext]_vars

\* C25: from a tier of the list getNextPrice answers the next lower tier, from
\* the last tier the floor; its answer is never below the floor; asked again
\* with its own answer from the starting price it is at the floor after as
\* many steps as the list has tiers below the first, and stays there
C25_WalksDownToFloor ==
  LET config == getPricingConfig(tier.domain)
      i == indexOf(config.tiers, tier.prev)
  IN tier.steps > 0 =>
       /\ (i > 0 /\ i < Len(config.tiers)) => tier.cents = config.tiers[i + 1]
       /\ i = Len(config.tiers) => tier.cents = config.floor
       /\ tier.cents >= config.floor
       /\ (tier.from = config.start /\ tier.steps >= Len(config.tiers) - 1)
            => tier.cents = config.floor
       /\ (tier.from = config.start /\ tier.steps < Len(config.tiers) - 1)
            => tier.cents > config.floor

\* the walk from the starting price of an edu domain has gone past the floor
C25_Witness ==
  /\ tier.from = getStartingPrice(tier.domain)
  /\ isEduDomain(tier.domain)
  /\ tier.steps = MaxSteps
  /\ tier.prev = getFloorPrice(tier.domain)
  /\ tier.cents = getFloorPrice(tier.domain)


\* ------------------------------------------------ tier extraction and quote
MaxFieldsSet == 2

Str(v) == [isString |-> TRUE, v |-> v]

\* what a client may put in a field of the proof object
RawStrings ==
  { <<"a", ".", "e", "d", "u">>,
    <<"A", ".", "E", "D", "U">>,
    <<" ", "a", ".", "o", "r", "g", " ">>,
    <<"u", "@", "g", ".", "c", "o", "m">>,
    <<"<", "a", ".", "e", "d", "u", ">">>,
    <<"a", ".", "o", "r", "g", ".">>,
    <<"a", ".", "i", "o">>,
    <<"e", "d", "u">>,
    <<"a", " ", "b", ".", "c">>,
    <<"u", "@", "g">>,
    <<".">>,
    <<>> }

RECURSIVE ProofsWith(_)
ProofsWith(n) ==
  IF n = 0 THEN {EmptyProof}
  ELSE LET P == ProofsWith(n - 1)
       IN P \cup {[p EXCEPT ![i] = Str(a)] :
                    p \in P, i \in 1..Len(ProofFields), a \in RawStrings}

\* proof objects with at most MaxFieldsSet of the fields set
ProofLikes == ProofsWith(MaxFieldsSet)

RECURSIVE trimStart(_)
trimStart(s) == IF s # <<>> /\ s[1] = " " THEN trimStart(Tail(s)) ELSE s

RECURSIVE trimEnd(_)
trimEnd(s) ==
  IF s # <<>> /\ s[Len(s)] = " " THEN trimEnd(SubSeq(s, 1, Len(s) - 1)) ELSE s

\* String.prototype.trim
trim(s) == trimEnd(trimStart(s))

includes(s, c) == \E i \in 1..Len(s) : s[i] = c

\* String.prototype.lastIndexOf, counting from 1; 0 stands for -1
lastIndexOf(s, c) ==
  IF includes(s, c)
  THEN CHOOSE i \in 1..Len(s) : s[i] = c /\ \A j \in (i + 1)..Len(s) : s[j] # c
  ELSE 0

RECURSIVE stripLeading(_)
stripLeading(s) ==
  IF s # <<>> /\ s[1] \in {"<", "(", "["} THEN stripLeading(Tail(s)) ELSE s

RECURSIVE stripTrailing(_)
stripTrailing(s) ==
  IF s # <<>> /\ s[Len(s)] \in {">", ")", "]", "."}
  THEN stripTrailing(SubSeq(s, 1, Len(s) - 1)) ELSE s

\* a variant that lets a string without a dot through
normalizeToDomain_noDotTest(raw) ==
  IF ~raw.isString THEN NotAString
  ELSE LET lowered == toLowerCase(trim(raw.v))
           afterAt == IF includes(lowered, "@")
                      THEN SubSeq(lowered, lastIndexOf(lowered, "@") + 1, Len(lowered))
                      ELSE lowered
           normalized == stripTrailing(stripLeading(afterAt))
       IN IF includes(normalized, " ") THEN NotAString
          ELSE Str(normalized)

\* normalizeToDomain(raw): the domain, or null (NotAString)
normalizeToDomain(raw) ==
  IF ~raw.isString THEN NotAString
  ELSE LET lowered == toLowerCase(trim(raw.v))
           afterAt == IF includes(lowered, "@")
                      THEN SubSeq(lowered, lastIndexOf(lowered, "@") + 1, Len(lowered))
                      ELSE lowered
           normalized == stripTrailing(stripLeading(afterAt))
       IN IF includes(normalized, " ") THEN NotAString
          ELSE IF ~includes(normalized, ".") THEN NotAString
          ELSE Str(normalized)

\* a result the caller's if (domainN) takes: a non-empty string
truthy(d) == d.isString /\ d.v # <<>>

\* extractDomainFromZkIdProof(proof): the first field that normalises
extractDomainFromZkIdProof(proof) ==
  LET found == {i \in 1..Len(ProofFields) : truthy(normalizeToDomain(proof[i]))}
  IN IF found = {} THEN NotAString
     ELSE normalizeToDomain(proof[CHOOSE i \in found : \A j \in found : i <= j])

extractTierFromZkIdProof(proof) ==
  LET domain == extractDomainFromZkIdProof(proof)
  IN IF ~truthy(domain) THEN "blocked"
     ELSE IF endsWith(domain.v, <<".", "e", "d", "u">>)
               \/ endsWith(domain.v, <<".", "o", "r", "g">>) THEN "low"
     ELSE "high"

RESOURCES == {"research-docs", "trading-signals"}

ResourceIds == RESOURCES \cup {"unknown-resource"}

\* computeQuote({resource_id, tier}): the error thrown, or "quote" and the price
computeQuote(resource_id, t) ==
  IF resource_id \notin RESOURCES
  THEN [result |-> "RESOURCE_NOT_FOUND", final_price_usdc |-> "none"]
  ELSE IF t = "blocked"
  THEN [result |-> "DOMAIN_BLOCKED", final_price_usdc |-> "none"]
  ELSE IF t = "low" THEN [result |-> "quote", final_price_usdc |-> "1.00"]
  ELSE [result |-> "quote", final_price_usdc |-> "50.00"]

\* the tier of the proof is extracted and a quote is computed for it
Quote ==
  /\ ~quote.done
  /\ LET t == extractTierFromZkIdProof(quote.proof)
         q == computeQuote(quote.resource_id, t)
     IN quote' = [quote EXCEPT !.done = TRUE,
                               !.domain = extractDomainFromZkIdProof(quote.proof),
                               !.tier = t,
                               !.result = q.result,
                               !.final_price_usdc = q.final_price_usdc]
  /\ UNCHANGED exceptQuote

QuoteInit ==
  /\ pc = "idle"
  /\ call = NoCall
  /\ witness = NoWitness
  /\ ev = NoEv
  /\ ret = RetNone
  /\ hash = NoHash
  /\ last = NoLast
  /\ x402 = NoX402
  /\ pricing = NoPricing
  /\ tier = NoTier
  /\ db = NoDb
  /\ store = NoStore
  /\ jwt = NoJwt
  /\ quote \in {[NoQuote EXCEPT !.proof = p, !.resource_id = id] :
                  p \in ProofLikes, id \in ResourceIds}

QuoteNext == Quote

QuoteSpec == QuoteInit /\ [][QuoteNext]_vars

\* no field of the proof normalises to a domain
noDomainIn(proof) ==
  \A i \in 1..Len(ProofFields) : ~normalizeToDomain(proof[i]).isString

\* the tier follows the extracted domain: none gives blocked, one ending in
\* .edu or .org gives low, any other gives high
tierFollowsDomain ==
  /\ noDomainIn(quote.proof) => quote.tier = "blocked"
  /\ (quote.domain.isString
        /\ (isEduDomain(quote.domain.v) \/ isOrgDomain(quote.domain.v)))
       => quote.tier = "low"
  /\ (quote.domain.isString
        /\ ~(isEduDomain(quote.domain.v) \/ isOrgDomain(quote.domain.v)))
       => quote.tier = "high"
  /\ ~noDomainIn(quote.proof) => quote.domain.isString

getDb_noPromiseCache(c, uri) ==
  /\ db.calls[c].pc = "idle"
  /\ IF ~uri
     THEN db' = [db EXCEPT !.calls[c] = [@ EXCEPT !.pc = "done", !.uri = FALSE,
                                                  !.result = "throw"]]
     ELSE IF db.client # 0
     THEN db' = [db EXCEPT !.calls[c] = [@ EXCEPT !.pc = "done", !.result = "db",
                                                  !.client = db.client]]
     ELSE db' = [db EXCEPT !.newClient = db.constructed + 1,
                           !.constructed = @ + 1,
                           !.connects = @ + 1,
                           !.connectPromise = "pending",
                           !.calls[c] = [@ EXCEPT !.pc = "await"]]
  /\ UNCHANGED exceptDb

\* getDb(), up to client = await connectPromise; uri tells whether
\* process.env.MONGODB_URI is set when the call is made
getDb(c, uri) ==
  /\ db.calls[c].pc = "idle"
  /\ IF ~uri
     THEN db' = [db EXCEPT !.calls[c] = [@ EXCEPT !.pc = "done", !.uri = FALSE,
                                                  !.result = "throw"]]
     ELSE IF db.client # 0
     THEN db' = [db EXCEPT !.calls[c] = [@ EXCEPT !.pc = "done", !.result = "db",
                                                  !.client = db.client]]
     ELSE IF db.connectPromise = "null"
     THEN db' = [db EXCEPT !.newClient = db.constructed + 1,
                           !.constructed = @ + 1,
                           !.connects = @ + 1,
                           !.connectPromise = "pending",
                           !.calls[c] = [@ EXCEPT !.pc = "await"]]
     ELSE db' = [db EXCEPT !.calls[c] = [@ EXCEPT !.pc = "await"]]
  /\ UNCHANGED exceptDb

\* newClient.connect() settles
connectSettle(ok) ==
  /\ db.connectPromise = "pending"
  /\ db' = [db EXCEPT !.connectPromise = IF ok THEN "fulfilled" ELSE "rejected"]
  /\ UNCHANGED exceptDb

\* the call resumes after await connectPromise: it caches the client and
\* returns client.db(dbName), or throws the connection error
getDbResume(c) ==
  /\ db.calls[c].pc = "await"
  /\ db.connectPromise \in {"fulfilled", "rejected"}
  /\ IF db.connectPromise = "fulfilled"
     THEN db' = [db EXCEPT !.client = db.newClient,
                           !.calls[c] = [@ EXCEPT !.pc = "done", !.result = "db",
                                                  !.client = db.newClient]]
     ELSE db' = [db EXCEPT !.calls[c] = [@ EXCEPT !.pc = "done", !.result = "throw"]]
  /\ UNCHANGED exceptDb

DbInit ==
  /\ pc = "idle"
  /\ call = NoCall
  /\ witness = NoWitness
  /\ ev = NoEv
  /\ ret = RetNone
  /\ hash = NoHash
  /\ last = NoLast
  /\ x402 = NoX402
  /\ pricing = NoPricing
  /\ tier = NoTier
  /\ quote = NoQuote
  /\ db = NoDb
  /\ store = NoStore
  /\ jwt = NoJwt

DbNext ==
  \/ \E c \in Calls, uri \in BOOLEAN : getDb(c, uri)
  \/ \E ok \in BOOLEAN : connectSettle(ok)
  \/ \E c \in Calls : getDbResume(c)

DbSpec == DbInit /\ [][DbNext]_vars

\* at most one client, one connect, and one client behind every Db returned
OneClient ==
  /\ db.constructed <= 1
  /\ db.connects <= 1
  /\ \A c \in Calls :
       db.calls[c].result = "db"
         => db.calls[c].client = db.newClient /\ db.calls[c].client # 0

\* a step in which a call made without MONGODB_URI fails
FailsWithoutUri ==
  \E c \in Calls :
    /\ db.calls[c].pc = "idle"
    /\ db'.calls[c].pc = "done"
    /\ ~db'.calls[c].uri

\* C29: under any interleaving of getDb calls at most one MongoClient is
\* constructed and connect() runs at most once, every successful call returns
\* a Db of that client, and a call without MONGODB_URI throws and leaves the
\* cache and the counts as they were
C29_OneClient ==
  /\ []OneClient
  /\ [][FailsWithoutUri =>
          /\ \E c \in Calls : db'.calls[c].result = "throw" /\ db.calls[c].result = "none"
          /\ db'.client = db.client
          /\ db'.connectPromise = db.connectPromise
          /\ db'.constructed = db.constructed
          /\ db'.connects = db.connects]_vars

\* two calls overlapped on one pending connection and both got a Db, and a
\* third was made without MONGODB_URI
C29_Witness ==
  \E c1, c2, c3 \in Calls :
    /\ c1 # c2
    /\ db.calls[c1].result = "db"
    /\ db.calls[c2].result = "db"
    /\ db.calls[c3].result = "throw" /\ ~db.calls[c3].uri
    /\ db.connects = 1


\* ------------------------------------------------------- storing proofs
StrV(v) == [kind |-> "string", v |-> v]
NumV(n) == [kind |-> "number", v |-> n]
ObjV(v) == [kind |-> "object", v |-> v]
ArrV(v) == [kind |-> "array", v |-> v]

\* a body with every required field
ValidBody == [walletAddress |-> StrV("0x1"), domain |-> StrV("a.edu"),
              method |-> StrV("jwt"), generatedAt |-> NumV("1"),
              proof |-> ObjV("proof"), publicSignals |-> ArrV("signals")]

\* bodies a client may POST: complete ones, and ones with a field missing,
\* empty or of the wrong type
Bodies ==
  { ValidBody,
    [ValidBody EXCEPT !.generatedAt = NumV("0")],
    [ValidBody EXCEPT !.walletAddress = Absent],
    [ValidBody EXCEPT !.walletAddress = StrV("")],
    [ValidBody EXCEPT !.domain = Absent],
    [ValidBody EXCEPT !.method = Absent],
    [ValidBody EXCEPT !.generatedAt = Absent],
    [ValidBody EXCEPT !.generatedAt = StrV("1")],
    [ValidBody EXCEPT !.proof = Absent],
    [ValidBody EXCEPT !.publicSignals = Absent],
    [ValidBody EXCEPT !.publicSignals = ObjV("signals")] }

\* !value of a body field
falsy(f) ==
  \/ f.kind = "missing"
  \/ f.kind = "string" /\ f.v = ""
  \/ f.kind = "number" /\ f.v = "0"

\* the test of lines 51-58 passes
validBody(body) ==
  /\ ~falsy(body.walletAddress)
  /\ ~falsy(body.domain)
  /\ ~falsy(body.method)
  /\ body.generatedAt.kind = "number"
  /\ ~falsy(body.proof)
  /\ body.publicSignals.kind = "array"

\* createHash("sha256").update(JSON.stringify(req.body)).digest("hex"): one
\* digest per serialised body
sha256(body) ==
  <<"sha256", body.walletAddress, body.domain, body.method, body.generatedAt,
    body.proof, body.publicSignals>>

\* the documents of the collection with that proofHash
docsOf(h) == {d \in store.docs : d.proofHash = h}

\* POST /proofs up to await getDb(): validation, hash and document
postProofs(r, body) ==
  /\ store.posts[r].pc = "idle"
  /\ IF ~validBody(body)
     THEN store' = [store EXCEPT
                      !.posts[r] = [@ EXCEPT !.pc = "done", !.body = body,
                                             !.status = 400,
                                             !.error = "INVALID_PROOF_BODY"]]
     ELSE store' = [store EXCEPT
                      !.clock = @ + 1,
                      !.posts[r] = [@ EXCEPT !.pc = "getDb", !.body = body,
                                             !.proofHash = sha256(body)]]
  /\ UNCHANGED exceptStore

\* await getDb() settles
getDbSettle(r, ok) ==
  /\ store.posts[r].pc = "getDb"
  /\ store' = [store EXCEPT !.posts[r] =
       IF ok THEN [@ EXCEPT !.pc = "updateOne"]
       ELSE [@ EXCEPT !.pc = "done", !.status = 500,
                      !.error = "INTERNAL_SERVER_ERROR"]]
  /\ UNCHANGED exceptStore

\* collection.updateOne({proofHash}, {$setOnInsert: doc}, {upsert: true}),
\* query phase: the server looks for a document with the hash. The collection
\* has no unique index on proofHash, so the query and the insert of two
\* upserts can interleave.
updateOneMatch(r) ==
  /\ store.posts[r].pc = "updateOne"
  /\ store' = [store EXCEPT
                 !.posts[r] = [@ EXCEPT !.pc = "upsert",
                                        !.matched =
                                          docsOf(store.posts[r].proofHash) # {}]]
  /\ UNCHANGED exceptStore

\* write phase: a matched document is left as it is ($setOnInsert), otherwise
\* the document is inserted; then the handler answers
updateOneWrite(r, ok) ==
  /\ store.posts[r].pc = "upsert"
  /\ LET q == store.posts[r]
         doc == [id |-> r, proofHash |-> q.proofHash, body |-> q.body,
                 createdAt |-> store.clock]
     IN IF ~ok
        THEN store' = [store EXCEPT
                         !.posts[r] = [@ EXCEPT !.pc = "done", !.status = 500,
                                                !.error = "INTERNAL_SERVER_ERROR"]]
        ELSE store' = [store EXCEPT
                         !.docs = IF q.matched THEN @ ELSE @ \cup {doc},
                         !.posts[r] = [@ EXCEPT !.pc = "done", !.status = 200]]
  /\ UNCHANGED exceptStore

StoreInit ==
  /\ pc = "idle"
  /\ call = NoCall
  /\ witness = NoWitness
  /\ ev = NoEv
  /\ ret = RetNone
  /\ hash = NoHash
  /\ last = NoLast
  /\ x402 = NoX402
  /\ pricing = NoPricing
  /\ tier = NoTier
  /\ quote = NoQuote
  /\ db = NoDb
  /\ store = NoStore
  /\ jwt = NoJwt

StoreNext ==
  \/ \E r \in Requests, b \in Bodies : postProofs(r, b)
  \/ \E r \in Requests, ok \in BOOLEAN : getDbSettle(r, ok)
  \/ \E r \in Requests : updateOneMatch(r)
  \/ \E r \in Requests, ok \in BOOLEAN : updateOneWrite(r, ok)

StoreSpec == StoreInit /\ [][StoreNext]_vars

\* the POSTs that were answered 200
stored == {r \in Requests : store.posts[r].pc = "done" /\ store.posts[r].status = 200}

\* C27: POSTs of the same body, sequential or interleaved, are answered with
\* the same proofHash and leave exactly one document for it, whose fields are
\* never overwritten; a body that fails validation is answered
\* INVALID_PROOF_BODY and stores nothing
C27_StoreIdempotent ==
  /\ [](\A r1, r2 \in stored :
          store.posts[r1].body = store.posts[r2].body
            => store.posts[r1].proofHash = store.posts[r2].proofHash)
  /\ [](\A r \in stored : Cardinality(docsOf(store.posts[r].proofHash)) = 1)
  /\ [][\A d \in store.docs : d \in store'.docs]_vars
  /\ [](\A r \in Requests :
          (store.posts[r].pc # "idle" /\ ~validBody(store.posts[r].body))
            => /\ store.posts[r].pc = "done"
               /\ store.posts[r].error = "INVALID_PROOF_BODY"
               /\ \A d \in store.docs : d.id # r)


\* ------------------------------------------------- the domain of the JWT
JStr(v) == [kind |-> "string", v |-> v]

\* a value that is neither missing nor a string (a numeric sub, say)
JNum == [kind |-> "number", v |-> <<>>]

\* what a payload property may hold
JwtValues ==
  { Missing, JNum, JStr(<<>>),
    JStr(<<"u", "s", "e", "r">>),
    JStr(<<"u", "@", "d">>),
    JStr(<<"v", "@", "e">>),
    JStr(<<"a", "@", "b", "@", "c">>) }

\* the payloads: text JSON.parse rejects, and objects
Payloads ==
  {NoPayload} \cup
  {[parses |-> TRUE, email |-> e, preferred_username |-> u, sub |-> s] :
     e \in JwtValues, u \in JwtValues, s \in JwtValues}

\* a value an || or an if takes
truthyValue(x) == x.kind = "number" \/ (x.kind = "string" /\ x.v # <<>>)

hasAt(x) == x.kind = "string" /\ includes(x.v, "@")

\* email.split('@')[1]
afterAt(s) ==
  LET first == CHOOSE i \in 1..Len(s) : s[i] = "@" /\ \A j \in 1..(i - 1) : s[j] # "@"
      rest == SubSeq(s, first + 1, Len(s))
      ends == {i \in 1..Len(rest) : rest[i] = "@"}
  IN IF ends = {} THEN rest
     ELSE SubSeq(rest, 1, (CHOOSE i \in ends : \A j \in ends : i <= j) - 1)

Null == [result |-> Missing, caught |-> FALSE]
Caught == [result |-> Missing, caught |-> TRUE]

\* extractEmailDomain(jwtPayload). The conditional operator binds weaker than
\* ||, so the expression is
\*   (payload.email || payload.preferred_username || payload.sub?.includes('@'))
\*     ? payload.sub : null
\* and a TypeError of .includes on a non-string is caught and answered null.
extractEmailDomain(payload) ==
  IF ~payload.parses THEN Caught
  ELSE IF ~truthyValue(payload.email) /\ ~truthyValue(payload.preferred_username)
            /\ payload.sub.kind = "number"
  THEN Caught
  ELSE LET condition == \/ truthyValue(payload.email)
                        \/ truthyValue(payload.preferred_username)
                        \/ hasAt(payload.sub)
           email == IF condition THEN payload.sub ELSE Missing
       IN IF ~truthyValue(email) THEN Null
          ELSE IF email.kind = "number" THEN Caught
          ELSE IF includes(email.v, "@")
          THEN [result |-> JStr(afterAt(email.v)), caught |-> FALSE]
          ELSE Null

\* one call of extractEmailDomain; no exception leaves its try block
Extract ==
  /\ ~jwt.done
  /\ LET out == extractEmailDomain(jwt.payload)
     IN jwt' = [jwt EXCEPT !.done = TRUE, !.result = out.result,
                           !.caught = out.caught, !.threw = FALSE]
  /\ UNCHANGED exceptJwt

JwtInit ==
  /\ pc = "idle"
  /\ call = NoCall
  /\ witness = NoWitness
  /\ ev = NoEv
  /\ ret = RetNone
  /\ hash = NoHash
  /\ last = NoLast
  /\ x402 = NoX402
  /\ pricing = NoPricing
  /\ tier = NoTier
  /\ quote = NoQuote
  /\ db = NoDb
  /\ store = NoStore
  /\ jwt \in {[NoJwt EXCEPT !.payload = p] : p \in Payloads}

JwtNext == Extract

JwtSpec == JwtInit /\ [][JwtNext]_vars

\* the field the claim's order picks: email, else preferred_username, else a
\* sub that contains '@'
firstEmailLike(payload) ==
  IF truthyValue(payload.email) THEN payload.email
  ELSE IF truthyValue(payload.preferred_username) THEN payload.preferred_username
  ELSE IF hasAt(payload.sub) THEN payload.sub
  ELSE Missing

\* C28: the result is the part after '@' of the first email-like field (email,
\* then preferred_username, then a sub with '@'), so an email "user@d" gives
\* "d" whatever sub holds; unparseable payloads and payloads without an
\* address give null, and nothing is thrown
C28_DomainOfFirstField ==
  jwt.done =>
    /\ ~jwt.threw
    /\ ~jwt.payload.parses => jwt.result = Missing
    /\ jwt.payload.parses =>
         LET field == firstEmailLike(jwt.payload)
         IN jwt.result = IF hasAt(field) THEN JStr(afterAt(field.v)) ELSE Missing
====
